---- MODULE Spec2Model ----
(***************************************************************************)
(* A model of the Namada ledger shell's PrepareProposal step               *)
(* (apps/src/lib/node/ledger/shell/prepare_proposal.rs) together with the  *)
(* transaction codec it relies on (core/src/proto/types.rs).               *)
(*                                                                         *)
(* Byte strings are modelled as tagged records: an encoder wraps its input *)
(* in a tag, a decoder succeeds only on the tag it understands.  Options   *)
(* are sequences of length 0 or 1.                                         *)
(***************************************************************************)
EXTENDS Integers, Sequences, FiniteSets, TLC

VARIABLES
    mode,           \* ShellMode of this node: "Validator" or "Full"
    last_height,    \* storage.last_height
    tx_queue,       \* storage.tx_queue: FIFO of WrapperTx
    gas_meter,      \* shell.gas_meter (gas used so far in the block)
    voting_powers,  \* storage: consensus validator -> bonded stake
    op,             \* the operation that produced this state
    req,            \* the RequestPrepareProposal being answered (or NoReq)
    resp,           \* outcome of prepare_proposal (or NoResp)
    rejected,       \* Option: the decrypted records of the proposal rejected
                    \* last, since the last commit
    proposal_data,  \* shell.proposal_data: ids of the proposals to tally
    storage,        \* shell.storage: key -> Option value
    write_log,      \* shell.write_log: tx-level and block-level writes
    response,       \* the response::FinalizeBlock being filled in
    call,           \* last call of execute_governance_proposals: its
                    \* result and the storage and write-log operations it
                    \* made, in order
    chain_events,   \* every Proposal event emitted since genesis
    input,          \* library calls: the value the call is made on
    output          \* library calls: what the last call returned

shell_vars == <<mode, last_height, tx_queue, gas_meter, voting_powers, req,
                resp, rejected>>

gov_vars == <<proposal_data, storage, write_log, response, call, chain_events>>

lib_vars == <<input, output>>

vars == <<mode, last_height, tx_queue, gas_meter, voting_powers, op, req,
          resp, rejected, proposal_data, storage, write_log, response, call,
          chain_events, input, output>>

----------------------------------------------------------------------------
(* Bounds of the model *)

MaxMempool == 4     \* longest mempool handed over by Tendermint
MaxMixed == 2       \* longest mempool mixing every kind of tx
MaxVotes == 2       \* most votes in a local_last_commit
MaxHeight == 4      \* last block height that is still committed
MaxTime == 1        \* clock readings 0..MaxTime
MaxProposals == 2   \* governance proposals submitted since genesis
MaxPool == 3        \* transfers in a bridge pool (the unit tests' pools apart)
MaxValset == 4      \* validators in the Ethereum bridge validator set
MaxNonce == 3       \* highest nonce of the Bridge contract
MaxAddrs == 2       \* validator addresses
MaxCalls == 3       \* contract/expand calls made on one TxCode
MaxCmds == 3        \* commands sent to the mock Web3 client
MaxEthHeight == 2   \* highest Ethereum block height

----------------------------------------------------------------------------
(* Generic helpers *)

None == <<>>
Some(x) == <<x>>
IsSome(o) == Len(o) = 1

Ok(v) == [ok |-> TRUE, val |-> v]
Err(e) == [ok |-> FALSE, err |-> e]

Min(a, b) == IF a <= b THEN a ELSE b

SeqsUpTo(S, n) == UNION {[1..k -> S] : k \in 0..n}

Range(s) == {s[i] : i \in 1..Len(s)}

RECURSIVE SumOver(_, _)
SumOver(f, S) ==
    IF S = {} THEN 0
    ELSE LET x == CHOOSE y \in S : TRUE
         IN  f[x] + SumOver(f, S \ {x})

----------------------------------------------------------------------------
(* Hashing and signatures.  hash_tx is modelled as injective; a signature  *)
(* records who signed what, and verifies only under that key for that      *)
(* message.                                                                *)

hash_tx(bytes) == [tag |-> "hash", of |-> bytes]

PublicKey(sk) == sk

SigSchemeSign(keypair, to_sign) == [signer |-> PublicKey(keypair), msg |-> to_sign]

verify_signature_raw(pk, data, sig) == sig.signer = pk /\ sig.msg = data

----------------------------------------------------------------------------
(* core/src/proto/types.rs: TxCode and Tx *)

Literal(code) == [kind |-> "Literal", v |-> code]
HashCode(h) == [kind |-> "Hash", v |-> h]

\* TxCode::code_hash
code_hash(code) ==
    IF code.kind = "Hash" THEN code.v ELSE hash_tx(code.v)

\* TxCode::code
code_literal(code) ==
    IF code.kind = "Hash" THEN None ELSE Some(code.v)

\* TxCode::contract
contract(code) == HashCode(code_hash(code))

\* Variant: the supplied code is taken without comparing its hash
ExpandUnchecked(self, code) ==
    [self |-> Literal(code), result |-> Ok("unit")]

\* TxCode::expand: the TxCode after the call and the call's result
expand(self, code) ==
    IF hash_tx(code) = code_hash(self)
    THEN [self |-> Literal(code), result |-> Ok("unit")]
    ELSE [self |-> self, result |-> Err("InvalidCodeError")]

\* Tx::new: the timestamp is the clock reading at construction
TxNew(code, data, now) ==
    [code |-> Literal(code), data |-> data, timestamp |-> now,
     inner_tx |-> None, inner_tx_code |-> None]

\* The empty byte string
EmptyBytes == [tag |-> "raw", n |-> 0]

\* impl From<DateTimeUtc> for prost_types::Timestamp: a clock reading in
\* whole seconds
TimestampFrom(t) == [seconds |-> t, nanos |-> 0]

\* impl TryFrom<prost_types::Timestamp> for DateTimeUtc
DateTimeUtcTryFrom(ts) ==
    IF ts.nanos \in 0..999999999 THEN Ok(ts.seconds) ELSE Err("InvalidTimestamp")

\* borsh encoding of an EncryptedTx blob attached to a Tx, and its decoding
BorshBlob(x) == [tag |-> "borsh_blob", x |-> x]

\* A conversion that writes every code as a literal
ToProtoHashAsLiteral(tx) ==
    [code |-> IF IsSome(code_literal(tx.code))
              THEN code_literal(tx.code)[1]
              ELSE code_hash(tx.code),
     is_code_hash |-> FALSE,
     data |-> tx.data,
     timestamp |-> Some(TimestampFrom(tx.timestamp)),
     inner_tx |-> IF IsSome(tx.inner_tx) THEN Some(BorshBlob(tx.inner_tx[1])) ELSE None,
     inner_tx_code |-> IF IsSome(tx.inner_tx_code)
                       THEN Some(BorshBlob(tx.inner_tx_code[1])) ELSE None]

\* impl From<Tx> for types::Tx
ToProto(tx) ==
    [code |-> IF IsSome(code_literal(tx.code))
              THEN code_literal(tx.code)[1]
              ELSE code_hash(tx.code),
     is_code_hash |-> tx.code.kind = "Hash",
     data |-> tx.data,
     timestamp |-> Some(TimestampFrom(tx.timestamp)),
     inner_tx |-> IF IsSome(tx.inner_tx) THEN Some(BorshBlob(tx.inner_tx[1])) ELSE None,
     inner_tx_code |-> IF IsSome(tx.inner_tx_code)
                       THEN Some(BorshBlob(tx.inner_tx_code[1])) ELSE None]

\* prost encoding of a types::Tx message (proto3): a field is on the wire
\* unless it holds its default value (empty bytes, false) or, for an
\* optional field, is absent
ProstEncode(msg) ==
    LET present == {f \in DOMAIN msg :
                       CASE f = "code" -> msg.code # EmptyBytes
                         [] f = "is_code_hash" -> msg.is_code_hash
                         [] OTHER -> IsSome(msg[f])}
    IN  [tag |-> "proto",
         fields |-> [f \in present |->
                        IF f \in {"code", "is_code_hash"} THEN msg[f]
                        ELSE msg[f][1]]]

\* prost decoding of a types::Tx message: fields that are not on the wire
\* get their default value
ProstDecode(bytes) ==
    IF bytes.tag # "proto" THEN Err("TxDecodingError")
    ELSE LET w == bytes.fields
             opt(f) == IF f \in DOMAIN w THEN Some(w[f]) ELSE None
         IN  Ok([code |-> IF "code" \in DOMAIN w THEN w["code"] ELSE EmptyBytes,
                 is_code_hash |-> "is_code_hash" \in DOMAIN w,
                 data |-> opt("data"),
                 timestamp |-> opt("timestamp"),
                 inner_tx |-> opt("inner_tx"),
                 inner_tx_code |-> opt("inner_tx_code")])

\* Tx::to_bytes
to_bytes(tx) == ProstEncode(ToProto(tx))

\* impl TryFrom<&[u8]> for Tx
try_from(tx_bytes) ==
    IF ~ProstDecode(tx_bytes).ok THEN Err("TxDecodingError")
    ELSE LET tx == ProstDecode(tx_bytes).val IN
         IF ~IsSome(tx.timestamp) THEN Err("NoTimestampError")
         ELSE IF ~DateTimeUtcTryFrom(tx.timestamp[1]).ok
              THEN Err("InvalidTimestamp")
         ELSE IF IsSome(tx.inner_tx) /\ tx.inner_tx[1].tag # "borsh_blob"
              THEN Err("TxDeserializingError")
         ELSE IF IsSome(tx.inner_tx_code) /\ tx.inner_tx_code[1].tag # "borsh_blob"
              THEN Err("TxDeserializingError")
         ELSE Ok([code |-> IF tx.is_code_hash THEN HashCode(tx.code)
                           ELSE Literal(tx.code),
                  data |-> tx.data,
                  timestamp |-> DateTimeUtcTryFrom(tx.timestamp[1]).val,
                  inner_tx |-> IF IsSome(tx.inner_tx)
                               THEN Some(tx.inner_tx[1].x) ELSE None,
                  inner_tx_code |-> IF IsSome(tx.inner_tx_code)
                                    THEN Some(tx.inner_tx_code[1].x) ELSE None])

\* A hash that covers the inner tx as well
PartialHashWithInner(tx) ==
    hash_tx(ProstEncode([code |-> code_hash(tx.code),
                         is_code_hash |-> TRUE,
                         data |-> tx.data,
                         timestamp |-> Some(TimestampFrom(tx.timestamp)),
                         inner_tx |-> tx.inner_tx,
                         inner_tx_code |-> None]))

\* Tx::partial_hash: code replaced by its hash, inner blobs left out
partial_hash(tx) ==
    hash_tx(ProstEncode([code |-> code_hash(tx.code),
                         is_code_hash |-> TRUE,
                         data |-> tx.data,
                         timestamp |-> Some(TimestampFrom(tx.timestamp)),
                         inner_tx |-> None,
                         inner_tx_code |-> None]))

\* borsh encoding of SignedTxData
SignedTxData(data, sig) == [tag |-> "signed", data |-> data, sig |-> sig]

\* Tx::sign
sign(tx, keypair) ==
    [tx EXCEPT !.data =
        Some(SignedTxData(tx.data, SigSchemeSign(keypair, partial_hash(tx))))]

\* Tx::verify_sig
verify_sig(tx, pk, sig) ==
    IF ~IsSome(tx.data) THEN Err("MissingData")
    ELSE LET signed_tx_data == tx.data[1]
             unsigned == [tx EXCEPT !.data = signed_tx_data.data]
         IN  IF verify_signature_raw(pk, partial_hash(unsigned), sig)
             THEN Ok(TRUE) ELSE Err("SigError")

----------------------------------------------------------------------------
(* Transaction kinds (core/src/types/transaction): WrapperTx, DecryptedTx, *)
(* ProtocolTx, TxType and process_tx                                       *)

\* borsh encoding of a TxType
TxTypeBytes(ty) == [tag |-> "txtype", ty |-> ty]

\* EncryptedTx::encrypt / EncryptedTx::decrypt under the (hardcoded) key
Encrypt(bytes) == [tag |-> "enc", plain |-> bytes]
Decrypt(enc) == enc.plain

\* WrapperTx::new: the inner tx is encrypted and committed to by its hash
WrapperTxNew(keypair, tx) ==
    [pk |-> PublicKey(keypair),
     inner_tx |-> Encrypt(to_bytes(tx)),
     tx_hash |-> hash_tx(to_bytes(tx))]

\* WrapperTx::sign
WrapperSign(wrapper, keypair, now) ==
    sign(TxNew([tag |-> "raw", n |-> 0],
               Some(TxTypeBytes([kind |-> "Wrapper", w |-> wrapper])), now),
         keypair)

\* WrapperTx::decrypt: fails when the plaintext does not match the
\* commitment or is no Tx
WrapperDecrypt(wrapper) ==
    LET decrypted == Decrypt(wrapper.inner_tx) IN
    IF hash_tx(decrypted) # wrapper.tx_hash THEN Err("DecryptionError")
    ELSE IF ~try_from(decrypted).ok THEN Err("InvalidTx")
    ELSE try_from(decrypted)

DecryptedOk(tx) == [kind |-> "Decrypted", tx |-> Some(tx), wrapper |-> None]
Undecryptable(wrapper) ==
    [kind |-> "Undecryptable", tx |-> None, wrapper |-> Some(wrapper)]

\* impl From<DecryptedTx> for Tx
TxFromDecrypted(decrypted, now) ==
    TxNew([tag |-> "raw", n |-> 0],
          Some(TxTypeBytes([kind |-> "Decrypted", d |-> decrypted])), now)

\* ProtocolTxType::sign: a protocol tx carrying an Ethereum events digest
ProtocolSign(digest, protocol_key, now) ==
    sign(TxNew([tag |-> "raw", n |-> 0],
               Some(TxTypeBytes([kind |-> "Protocol",
                                 p |-> [pk |-> PublicKey(protocol_key),
                                        tx |-> [kind |-> "EthereumEvents",
                                                digest |-> digest]]])),
               now),
         protocol_key)

\* impl TryFrom<Tx> for TxType, the kind only: data that is no TxType makes
\* a raw tx
TxKindOfData(data) ==
    IF IsSome(data) /\ data[1].tag = "txtype" THEN data[1].ty.kind ELSE "Raw"

\* process_tx: classifies a decoded Tx.  Wrapper and protocol txs must carry
\* a signature that verifies under the key they name.
process_tx(tx) ==
    IF IsSome(tx.data) /\ tx.data[1].tag = "signed" /\ IsSome(tx.data[1].data)
    THEN LET signed == tx.data[1]
             kind == TxKindOfData(signed.data)
         IN  IF kind = "Wrapper"
             THEN IF verify_sig(tx, signed.data[1].ty.w.pk, signed.sig).ok
                  THEN Ok([kind |-> "Wrapper", w |-> signed.data[1].ty.w])
                  ELSE Err("SigError")
             ELSE IF kind = "Protocol"
             THEN IF verify_sig(tx, signed.data[1].ty.p.pk, signed.sig).ok
                  THEN Ok([kind |-> "Protocol", p |-> signed.data[1].ty.p])
                  ELSE Err("SigError")
             ELSE IF kind = "Decrypted"
             THEN Ok([kind |-> "Decrypted", d |-> signed.data[1].ty.d])
             ELSE Ok([kind |-> "Raw"])
    ELSE LET kind == TxKindOfData(tx.data) IN
         IF kind \in {"Wrapper", "Protocol"} THEN Err("Unsigned")
         ELSE IF kind = "Decrypted"
         THEN Ok([kind |-> "Decrypted", d |-> tx.data[1].ty.d])
         ELSE Ok([kind |-> "Raw"])

----------------------------------------------------------------------------
(* Ethereum events vote extensions (shell/vote_extensions)                 *)

\* borsh encoding of an ethereum_events::Vext, the message a validator signs
VextBytes(vext) == [tag |-> "vext", v |-> vext]

\* The protocol key of a validator (keys are named after their owner)
ProtocolKeyOf(addr) == addr

\* Signed::<ethereum_events::Vext>::verify
VextVerify(signed, pk) ==
    verify_signature_raw(pk, VextBytes(signed.data), signed.sig)

\* ethereum_events::Vext { .. }.sign(protocol_key)
VextSign(validator_addr, block_height, ethereum_events, keypair) ==
    LET data == [validator_addr |-> validator_addr,
                 block_height |-> block_height,
                 ethereum_events |-> ethereum_events]
    IN  [data |-> data, sig |-> SigSchemeSign(keypair, VextBytes(data))]

\* split_vote_extensions: the signed Ethereum events of every vote
split_vote_extensions(votes) ==
    [i \in 1..Len(votes) |-> votes[i].vote_extension.ethereum_events]

NoDuplicates(s) == \A i, j \in 1..Len(s) : s[i] = s[j] => i = j

\* The validation without the signature check
ValidVextAnySignature(powers, height, signed) ==
    /\ signed.data.block_height = height
    /\ signed.data.validator_addr \in DOMAIN powers
    /\ NoDuplicates(signed.data.ethereum_events)

\* The validation that tolerates an event listed twice
ValidVextAllowDuplicates(powers, height, signed) ==
    /\ signed.data.block_height = height
    /\ signed.data.validator_addr \in DOMAIN powers
    /\ VextVerify(signed, ProtocolKeyOf(signed.data.validator_addr))

\* filter_invalid_eth_events_vexts: what makes a vote extension count
ValidVext(powers, height, signed) ==
    /\ signed.data.block_height = height
    /\ signed.data.validator_addr \in DOMAIN powers
    /\ VextVerify(signed, ProtocolKeyOf(signed.data.validator_addr))
    /\ NoDuplicates(signed.data.ethereum_events)

filter_invalid_eth_events_vexts(powers, height, vexts) ==
    SelectSeq(vexts, LAMBDA v : ValidVext(powers, height, v))

\* more than 2/3 of the total stake
HasQuorum(powers, signers) ==
    3 * SumOver(powers, signers) > 2 * SumOver(powers, DOMAIN powers)

\* The validators among `valid` that report event ev
SignersOf(valid, ev) ==
    {valid[i].data.validator_addr :
        i \in {j \in 1..Len(valid) : ev \in Range(valid[j].data.ethereum_events)}}

\* The compression without the per-event retention: every reported event
CompressKeepingAll(powers, height, vexts) ==
    LET valid == filter_invalid_eth_events_vexts(powers, height, vexts)
        signers == {valid[i].data.validator_addr : i \in 1..Len(valid)}
        seen == UNION {Range(valid[i].data.ethereum_events) : i \in 1..Len(valid)}
        LastOf(a) == CHOOSE i \in 1..Len(valid) :
                        /\ valid[i].data.validator_addr = a
                        /\ \A j \in 1..Len(valid) :
                              valid[j].data.validator_addr = a => j <= i
    IN  IF ~HasQuorum(powers, signers) THEN None
        ELSE Some([events |-> {[event |-> ev, signers |-> SignersOf(valid, ev)] :
                                  ev \in seen},
                   signatures |-> [a \in signers |-> valid[LastOf(a)].sig]])

\* compress_ethereum_events: None unless the valid vote extensions are backed
\* by more than 2/3 of the stake; events grouped by equality with their
\* signers, retaining the events whose signers hold more than 2/3
compress_ethereum_events(powers, height, vexts) ==
    LET valid == filter_invalid_eth_events_vexts(powers, height, vexts)
        signers == {valid[i].data.validator_addr : i \in 1..Len(valid)}
        seen == UNION {Range(valid[i].data.ethereum_events) : i \in 1..Len(valid)}
        LastOf(a) == CHOOSE i \in 1..Len(valid) :
                        /\ valid[i].data.validator_addr = a
                        /\ \A j \in 1..Len(valid) :
                              valid[j].data.validator_addr = a => j <= i
    IN  IF ~HasQuorum(powers, signers) THEN None
        ELSE Some([events |-> {[event |-> ev, signers |-> SignersOf(valid, ev)] :
                                  ev \in {e \in seen :
                                            HasQuorum(powers, SignersOf(valid, e))}},
                   signatures |-> [a \in signers |-> valid[LastOf(a)].sig]])

\* iter_protocol_txs: the Ethereum events digest is always emitted; there is
\* no validator set update (validator_set_update: None)
iter_protocol_txs(digest) == <<digest.ethereum_events>>

\* The elements of a set of events in ascending order
RECURSIVE SortedSeq(_)
SortedSeq(S) ==
    IF S = {} THEN <<>>
    ELSE LET least == CHOOSE x \in S : \A y \in S : x <= y
         IN  <<least>> \o SortedSeq(S \ {least})

\* VextDigest::decompress: one signed vote extension per signature of the
\* digest, listing the events that name its validator as a signer
decompress(digest, height) ==
    {[data |-> [validator_addr |-> a,
                block_height |-> height,
                ethereum_events |->
                    SortedSeq({e.event : e \in {x \in digest.events :
                                                  a \in x.signers}})],
      sig |-> digest.signatures[a]] : a \in DOMAIN digest.signatures}

----------------------------------------------------------------------------
(* shell/prepare_proposal.rs *)

\* mod record: the TxRecord for a tx and an action
record_keep(tx) == [action |-> "Unmodified", tx |-> tx]
record_add(tx) == [action |-> "Added", tx |-> tx]
record_remove(tx) == [action |-> "Removed", tx |-> tx]

\* This node's keys when it runs as a validator
ShellValidatorAddress == "validator1"

\* ShellMode::get_protocol_key
get_protocol_key(m) ==
    IF m = "Validator" THEN Some(ProtocolKeyOf(ShellValidatorAddress)) ELSE None

NO_VOTE_EXTENSIONS_MSG == "Honest Namada validators will always sign ethereum_events::Vext instances"
NOT_ENOUGH_VOTING_POWER_MSG == "A Tendermint quorum should never decide on a block including vote extensions reflecting less than or equal to 2/3 of the total stake."
NO_PROTOCOL_KEY_MSG == "Validators should always have a protocol key"

Built(txs) == [panic |-> None, txs |-> txs]
Panic(msg) == [panic |-> Some(msg), txs |-> <<>>]

\* The protocol txs signed with a key other than this validator's
ProtocolRecordsOtherKey(shell, ethereum_events, now) ==
    LET txs == iter_protocol_txs([ethereum_events |-> ethereum_events,
                                  validator_set_update |-> None])
    IN  Built([i \in 1..Len(txs) |->
                 record_add(to_bytes(
                     ProtocolSign(txs[i], ProtocolKeyOf("validator2"), now)))])

\* build_vote_extensions_txs, from the digest on: every protocol tx of the
\* digest is signed with the protocol key and added
protocol_records(shell, ethereum_events, now) ==
    LET protocol_key == get_protocol_key(shell.mode) IN
    IF ~IsSome(protocol_key) THEN Panic(NO_PROTOCOL_KEY_MSG)
    ELSE LET txs == iter_protocol_txs([ethereum_events |-> ethereum_events,
                                       validator_set_update |-> None])
         IN  Built([i \in 1..Len(txs) |->
                      record_add(to_bytes(
                          ProtocolSign(txs[i], protocol_key[1], now)))])

\* Variant: no early return for the genesis block
BuildVextNoGenesisCheck(shell, local_last_commit, now) ==
    IF ~IsSome(local_last_commit) THEN Panic(NO_VOTE_EXTENSIONS_MSG)
    ELSE LET ethereum_events ==
                 compress_ethereum_events(
                     shell.voting_powers, shell.last_height,
                     split_vote_extensions(local_last_commit[1].votes))
         IN  IF ~IsSome(ethereum_events) THEN Panic(NOT_ENOUGH_VOTING_POWER_MSG)
             ELSE protocol_records(shell, ethereum_events[1], now)

\* Variant: the block after genesis carries no vote extensions either
BuildVextSkipFirstBlock(shell, local_last_commit, now) ==
    IF shell.last_height <= 1 THEN Built(<<>>)
    ELSE IF ~IsSome(local_last_commit) THEN Panic(NO_VOTE_EXTENSIONS_MSG)
    ELSE LET ethereum_events ==
                 compress_ethereum_events(
                     shell.voting_powers, shell.last_height,
                     split_vote_extensions(local_last_commit[1].votes))
         IN  IF ~IsSome(ethereum_events) THEN Panic(NOT_ENOUGH_VOTING_POWER_MSG)
             ELSE protocol_records(shell, ethereum_events[1], now)

\* Variant: without a quorum the protocol section is left out
BuildVextOmitOnNoQuorum(shell, local_last_commit, now) ==
    IF shell.last_height = 0 THEN Built(<<>>)
    ELSE IF ~IsSome(local_last_commit) THEN Panic(NO_VOTE_EXTENSIONS_MSG)
    ELSE LET ethereum_events ==
                 compress_ethereum_events(
                     shell.voting_powers, shell.last_height,
                     split_vote_extensions(local_last_commit[1].votes))
         IN  IF ~IsSome(ethereum_events) THEN Built(<<>>)
             ELSE protocol_records(shell, ethereum_events[1], now)

\* Shell::build_vote_extensions_txs
build_vote_extensions_txs(shell, local_last_commit, now) ==
    IF shell.last_height = 0 THEN Built(<<>>)
    ELSE IF ~IsSome(local_last_commit) THEN Panic(NO_VOTE_EXTENSIONS_MSG)
    ELSE LET eth_events == split_vote_extensions(local_last_commit[1].votes)
             ethereum_events ==
                 compress_ethereum_events(shell.voting_powers,
                                          shell.last_height, eth_events)
         IN  IF ~IsSome(ethereum_events) THEN Panic(NOT_ENOUGH_VOTING_POWER_MSG)
             ELSE protocol_records(shell, ethereum_events[1], now)

\* process_tx on the decoded bytes yields a wrapper
IsAcceptedWrapper(tx_bytes) ==
    /\ try_from(tx_bytes).ok
    /\ process_tx(try_from(tx_bytes).val).ok
    /\ process_tx(try_from(tx_bytes).val).val.kind = "Wrapper"

\* Variant: half of the txs, without the one more
BuildMempoolTakeHalf(txs) ==
    LET taken == SubSeq(txs, 1, Len(txs) \div 2)
    IN  [i \in 1..Len(taken) |->
            IF IsAcceptedWrapper(taken[i]) THEN record_keep(taken[i])
            ELSE record_remove(taken[i])]

\* Variant: whatever decodes to a wrapper is kept, signed or not
BuildMempoolKeepAnyWrapper(txs) ==
    LET number_of_new_txs == 1 + Len(txs) \div 2
        taken == SubSeq(txs, 1, Min(number_of_new_txs, Len(txs)))
        LooksLikeWrapper(tx_bytes) ==
            /\ try_from(tx_bytes).ok
            /\ LET data == try_from(tx_bytes).val.data IN
               \/ TxKindOfData(data) = "Wrapper"
               \/ /\ IsSome(data) /\ data[1].tag = "signed"
                  /\ TxKindOfData(data[1].data) = "Wrapper"
    IN  [i \in 1..Len(taken) |->
            IF LooksLikeWrapper(taken[i]) THEN record_keep(taken[i])
            ELSE record_remove(taken[i])]

\* Variant: the txs past the cut are handed back as removed
BuildMempoolRemoveRest(txs) ==
    LET number_of_new_txs == 1 + Len(txs) \div 2 IN
    [i \in 1..Len(txs) |->
        IF i <= number_of_new_txs /\ IsAcceptedWrapper(txs[i])
        THEN record_keep(txs[i])
        ELSE record_remove(txs[i])]

\* Shell::build_mempool_txs
build_mempool_txs(txs) ==
    LET number_of_new_txs == 1 + Len(txs) \div 2
        taken == SubSeq(txs, 1, Min(number_of_new_txs, Len(txs)))
    IN  [i \in 1..Len(taken) |->
            IF IsAcceptedWrapper(taken[i]) THEN record_keep(taken[i])
            ELSE record_remove(taken[i])]

\* The record build_decrypted_txs adds for one queue entry
decrypted_record(wrapper, now) ==
    record_add(to_bytes(TxFromDecrypted(
        IF WrapperDecrypt(wrapper).ok
        THEN DecryptedOk(WrapperDecrypt(wrapper).val)
        ELSE Undecryptable(wrapper),
        now)))

\* Variant: the queue is walked from its back
BuildDecryptedReversed(queue, now) ==
    [i \in 1..Len(queue) |-> decrypted_record(queue[Len(queue) + 1 - i], now)]

\* Variant: wrappers that fail to decrypt are passed over
BuildDecryptedSkipUndecryptable(queue, now) ==
    LET ok == SelectSeq(queue, LAMBDA w : WrapperDecrypt(w).ok)
    IN  [i \in 1..Len(ok) |-> decrypted_record(ok[i], now)]

\* Shell::build_decrypted_txs
build_decrypted_txs(queue, now) ==
    [i \in 1..Len(queue) |-> decrypted_record(queue[i], now)]

\* Variant: the decrypted txs are put before the mempool txs
PrepareProposalDecryptedFirst(shell, request, now) ==
    LET reset == [shell EXCEPT !.gas_meter = 0] IN
    IF shell.mode = "Validator"
    THEN LET vext == build_vote_extensions_txs(reset, request.local_last_commit, now)
         IN  IF IsSome(vext.panic)
             THEN [shell |-> reset, panic |-> vext.panic, tx_records |-> <<>>]
             ELSE [shell |-> reset, panic |-> None,
                   tx_records |-> vext.txs \o build_decrypted_txs(reset.tx_queue, now)
                                      \o build_mempool_txs(request.txs)]
    ELSE [shell |-> reset, panic |-> None, tx_records |-> <<>>]

\* Variant: the queue is drained instead of iterated
PrepareProposalDrainQueue(shell, request, now) ==
    LET reset == [shell EXCEPT !.gas_meter = 0] IN
    IF shell.mode = "Validator"
    THEN LET vext == build_vote_extensions_txs(reset, request.local_last_commit, now)
         IN  IF IsSome(vext.panic)
             THEN [shell |-> reset, panic |-> vext.panic, tx_records |-> <<>>]
             ELSE [shell |-> [reset EXCEPT !.tx_queue = <<>>], panic |-> None,
                   tx_records |-> vext.txs \o build_mempool_txs(request.txs)
                                      \o build_decrypted_txs(reset.tx_queue, now)]
    ELSE [shell |-> reset, panic |-> None, tx_records |-> <<>>]

\* Variant: the gas meter is reset only on the validator's path
PrepareProposalResetWhenValidator(shell, request, now) ==
    LET reset == [shell EXCEPT !.gas_meter = 0] IN
    IF shell.mode = "Validator"
    THEN LET vext == build_vote_extensions_txs(reset, request.local_last_commit, now)
         IN  IF IsSome(vext.panic)
             THEN [shell |-> reset, panic |-> vext.panic, tx_records |-> <<>>]
             ELSE [shell |-> reset, panic |-> None,
                   tx_records |-> vext.txs \o build_mempool_txs(request.txs)
                                      \o build_decrypted_txs(reset.tx_queue, now)]
    ELSE [shell |-> shell, panic |-> None, tx_records |-> <<>>]

\* Shell::prepare_proposal: the shell after the call, and either the
\* tx_records of the response or the message of the panic that ended it
prepare_proposal(shell, request, now) ==
    LET reset == [shell EXCEPT !.gas_meter = 0] IN
    IF shell.mode = "Validator"
    THEN LET vext == build_vote_extensions_txs(reset, request.local_last_commit, now)
         IN  IF IsSome(vext.panic)
             THEN [shell |-> reset, panic |-> vext.panic, tx_records |-> <<>>]
             ELSE [shell |-> reset, panic |-> None,
                   tx_records |-> vext.txs \o build_mempool_txs(request.txs)
                                      \o build_decrypted_txs(reset.tx_queue, now)]
    ELSE [shell |-> reset, panic |-> None, tx_records |-> <<>>]

----------------------------------------------------------------------------
(* The inputs Tendermint may hand to the shell *)

RawBytes(n) == [tag |-> "raw", n |-> n]

\* A client's inner tx: code and data, no signature
InnerTx(n) == TxNew(RawBytes(100), Some(RawBytes(n)), 0)

\* A wrapper whose commitment matches its ciphertext
GoodWrapper == WrapperTxNew("albert", InnerTx(1))
\* A wrapper whose ciphertext does not decrypt to the committed tx
BadCommitWrapper ==
    [WrapperTxNew("albert", InnerTx(2)) EXCEPT !.tx_hash = hash_tx(RawBytes(9))]
\* A wrapper that is only ever submitted without a valid signature
UnsignedWrapper == WrapperTxNew("albert", InnerTx(3))
MisSignedWrapper == WrapperTxNew("albert", InnerTx(4))

MempoolWrapperA == to_bytes(WrapperSign(GoodWrapper, "albert", 0))
MempoolWrapperB == to_bytes(WrapperSign(BadCommitWrapper, "albert", 0))
\* Tx::new("", Some(wrapper.try_to_vec())): a wrapper nobody signed
MempoolUnsigned ==
    to_bytes(TxNew(RawBytes(0),
                   Some(TxTypeBytes([kind |-> "Wrapper", w |-> UnsignedWrapper])), 0))
\* a wrapper signed with a key other than the one it names
MempoolMisSigned == to_bytes(WrapperSign(MisSignedWrapper, "bertha", 0))
MempoolRaw == to_bytes(InnerTx(5))
MempoolGarbage == [tag |-> "garbage"]

MempoolTxs == {MempoolWrapperA, MempoolWrapperB, MempoolUnsigned,
               MempoolMisSigned, MempoolRaw, MempoolGarbage}

Validators == {"validator1", "validator2"}
GenesisStakes == [a \in Validators |-> IF a = "validator1" THEN 2 ELSE 1]
\* one validator alone holds more than 2/3 (test_utils::setup has a single
\* validator holding all the stake)
MajorityStakes == [a \in Validators |-> IF a = "validator1" THEN 3 ELSE 1]
ZeroStakes == [a \in Validators |-> 0]

\* An ExtendedVoteInfo carrying a VoteExtension without validator set update
Vote(signed_vext) ==
    [vote_extension |-> [ethereum_events |-> signed_vext,
                         validator_set_update |-> None]]

\* test_utils::invalidate_signature
invalidate_signature(sig) == [sig EXCEPT !.signer = "invalid"]

\* The vote extensions on offer when the last committed height is h
VoteCatalogue(h) ==
    {Vote(VextSign("validator1", h, <<1, 2>>, ProtocolKeyOf("validator1"))),
     Vote(VextSign("validator2", h, <<1>>, ProtocolKeyOf("validator2"))),
     Vote(VextSign("validator2", h, <<>>, ProtocolKeyOf("validator2"))),
     Vote([VextSign("validator1", h, <<1>>, ProtocolKeyOf("validator1"))
             EXCEPT !.sig = invalidate_signature(@)]),
     Vote(VextSign("validator1", h + 1, <<1>>, ProtocolKeyOf("validator1"))),
     Vote(VextSign("bertha", h, <<1>>, ProtocolKeyOf("bertha"))),
     Vote(VextSign("validator1", h, <<1, 1>>, ProtocolKeyOf("validator1")))}

\* Both validators sign: event 1 is seen by both, event 2 by validator1 only
QuorumVotes(h) ==
    <<Vote(VextSign("validator1", h, <<1, 2>>, ProtocolKeyOf("validator1"))),
      Vote(VextSign("validator2", h, <<1>>, ProtocolKeyOf("validator2")))>>

CommitInfo(votes) == [votes |-> votes]

\* The mempools on offer: short ones of every kind of tx, and longer ones
\* of valid wrappers and raw txs
Mempools ==
    SeqsUpTo(MempoolTxs, MaxMixed)
        \cup SeqsUpTo({MempoolWrapperA, MempoolRaw}, MaxMempool)

\* Any mempool with a missing or a full last commit, and any last commit
\* with an empty mempool
Requests(h) ==
    {[txs |-> m, local_last_commit |-> l] :
        m \in Mempools,
        l \in {None, Some(CommitInfo(QuorumVotes(h)))}}
    \cup
    {[txs |-> <<>>, local_last_commit |-> Some(CommitInfo(v))] :
        v \in SeqsUpTo(VoteCatalogue(h), MaxVotes)}

NoReq == [txs |-> <<>>, local_last_commit |-> None]
NoResp == [status |-> "none", tx_records |-> <<>>, msg |-> ""]

----------------------------------------------------------------------------
(* Governance storage (ledger/governance/storage), token balances and the  *)
(* write log                                                               *)

ProposalIds == 1..MaxProposals

gov_address == "governance"
slash_fund_address == "slash_fund"
AuthorAddress == "albert"
GovValidators == {"validator1", "validator2", "validator3"}

\* gov_storage: the keys of proposal `id`
get_funds_key(id) == [seg |-> "funds", id |-> id]
get_voting_end_epoch_key(id) == [seg |-> "voting_end_epoch", id |-> id]
get_author_key(id) == [seg |-> "author", id |-> id]
get_proposal_code_key(id) == [seg |-> "proposal_code", id |-> id]
get_proposal_execution_key(id) == [seg |-> "pending", id |-> id]
get_vote_prefix_key(id) == [seg |-> "vote", id |-> id]
get_counter_key == [seg |-> "counter", id |-> 0]
get_min_quorum_key == [seg |-> "min_quorum", id |-> 0]

\* token::balance_key of the native token
balance_key(owner) == [seg |-> "balance", owner |-> owner]

ProposalKeys(id) ==
    {get_funds_key(id), get_voting_end_epoch_key(id), get_author_key(id),
     get_proposal_code_key(id), get_proposal_execution_key(id),
     get_vote_prefix_key(id)}

StorageKeys ==
    UNION {ProposalKeys(id) : id \in ProposalIds}
        \cup {get_counter_key, get_min_quorum_key}
        \cup {balance_key(a) : a \in {gov_address, slash_fund_address, AuthorAddress}}

\* Shell::read_storage_key / read_storage_key_bytes: None for a missing key
read_storage_key(st, key) == st[key]

\* Storage::write and Storage::delete
storage_write(st, key, value) == [st EXCEPT ![key] = Some(value)]
storage_delete(st, key) == [st EXCEPT ![key] = None]

read_balance(st, owner) ==
    IF IsSome(st[balance_key(owner)]) THEN st[balance_key(owner)][1] ELSE 0

\* Storage::transfer of the native token
storage_transfer(st, amount, src, dest) ==
    LET debited == storage_write(st, balance_key(src),
                                 read_balance(st, src) - amount)
    IN  storage_write(debited, balance_key(dest),
                      read_balance(debited, dest) + amount)

\* WriteLog::commit_tx and WriteLog::drop_tx
commit_tx(log) == [tx |-> {}, block |-> log.block \cup log.tx]
drop_tx(log) == [tx |-> {}, block |-> log.block]

\* The bonded stake of the validators at an epoch
validator_stakes(st, epoch) ==
    [a \in GovValidators |-> IF a = "validator1" THEN 2 ELSE 1]

\* get_proposal_votes: the votes stored for the proposal; no vote key means
\* no votes, votes that cannot be decoded are an error
get_proposal_votes(st, epoch, id) ==
    LET stored == read_storage_key(st, get_vote_prefix_key(id)) IN
    IF ~IsSome(stored) THEN Ok([yay |-> {}, nay |-> {}])
    ELSE IF ~stored[1].readable THEN Err("votes cannot be read")
    ELSE Ok([yay |-> stored[1].yay, nay |-> stored[1].nay])

\* A tally that passes on a tie
ComputeTallyTiePasses(st, epoch, votes) ==
    LET stakes == validator_stakes(st, epoch)
        yay == SumOver(stakes, votes.yay)
        nay == SumOver(stakes, votes.nay)
    IN  Ok(yay >= nay /\ yay + nay >= read_storage_key(st, get_min_quorum_key)[1])

\* compute_tally: passes iff the Yay stake is greater than the Nay stake and
\* the voting stake reaches the quorum parameter
compute_tally(st, epoch, votes) ==
    LET stakes == validator_stakes(st, epoch)
        yay == SumOver(stakes, votes.yay)
        nay == SumOver(stakes, votes.nay)
    IN  Ok(yay > nay /\ yay + nay >= read_storage_key(st, get_min_quorum_key)[1])

\* types::storage::encode of a proposal id
encode(id) == [tag |-> "borsh", id |-> id]

\* Proposal code, named after what running it leads to
WasmCode(behaviour) == [tag |-> "wasm", behaviour |-> behaviour]

\* protocol::apply_tx of a decrypted tx: the code writes to the tx-level
\* write log, then the validity predicates accept or reject, or the run
\* fails
apply_tx(tx_type, log, st) ==
    LET tx == tx_type.d.tx[1]
        written == [log EXCEPT !.tx = @ \cup {[seg |-> "parameter",
                                              id |-> tx.data[1].id]}]
    IN  [write_log |-> written,
         result |-> IF tx.code.v.behaviour = "error" THEN Err("RuntimeError")
                    ELSE Ok([accepted |-> tx.code.v.behaviour = "accept"])]

\* bool as u64, to_string
BoolAsU64(b) == IF b THEN "1" ELSE "0"

\* ProposalEvent::new(..).into(): the Event of a tally; the two flags are
\* stored inverted
ProposalEvent(tally, id, has_proposal_code, proposal_code_exit_status) ==
    [event_type |-> "Proposal",
     level |-> "Block",
     attributes |->
        [tally_result |-> tally,
         proposal_id |-> ToString(id),
         has_proposal_code |-> BoolAsU64(~has_proposal_code),
         proposal_code_exit_status |-> BoolAsU64(~proposal_code_exit_status)]]

----------------------------------------------------------------------------
(* shell/governance.rs: execute_governance_proposals                       *)

\* Error::BadProposal
BadProposal(id, msg) == [error |-> "BadProposal", id |-> id, msg |-> msg]

\* The state a call works on: the shell's storage and write log, the events
\* of the response, the ProposalsResult being built, and the early return
Running(shell, resp_events) ==
    [storage |-> shell.storage, write_log |-> shell.write_log,
     events |-> resp_events, passed |-> <<>>, rejected |-> <<>>,
     trace |-> <<>>, error |-> None]

\* `?` on a missing field: the function returns the error at once
ReturnErr(st, e) == [st EXCEPT !.error = Some(e)]

\* response.events.push(proposal_event)
PushEvent(st, event) == [st EXCEPT !.events = Append(@, event)]

\* The lock and the run of the code, the lock being deleted only when the
\* code could be run
RunUnderLockKeptOnError(st, id, proposal_code) ==
    LET tx == TxNew(proposal_code, Some(encode(id)), 0)
        tx_type == [kind |-> "Decrypted", d |-> DecryptedOk(tx)]
        pending_execution_key == get_proposal_execution_key(id)
        locked == storage_write(st.storage, pending_execution_key, "")
        tx_result == apply_tx(tx_type, st.write_log, locked)
        unlocked == storage_delete(locked, pending_execution_key)
    IN  [tx_result |-> tx_result.result,
         st |-> [st EXCEPT
                   !.storage = IF tx_result.result.ok THEN unlocked ELSE locked,
                   !.write_log = tx_result.write_log,
                   !.trace = @ \o
                      <<[step |-> "write_lock", id |-> id],
                        [step |-> "apply_tx", id |-> id,
                         locked |-> IsSome(read_storage_key(
                                              locked, pending_execution_key))]>>
                      \o IF tx_result.result.ok
                         THEN <<[step |-> "delete_lock", id |-> id]>>
                         ELSE <<>>]]

\* The lock, the run of the code and the unlock of a passed proposal
RunUnderLock(st, id, proposal_code) ==
    LET tx == TxNew(proposal_code, Some(encode(id)), 0)
        tx_type == [kind |-> "Decrypted", d |-> DecryptedOk(tx)]
        pending_execution_key == get_proposal_execution_key(id)
        locked == storage_write(st.storage, pending_execution_key, "")
        tx_result == apply_tx(tx_type, st.write_log, locked)
        unlocked == storage_delete(locked, pending_execution_key)
    IN  [tx_result |-> tx_result.result,
         st |-> [st EXCEPT
                   !.storage = unlocked,
                   !.write_log = tx_result.write_log,
                   !.trace = @ \o
                      <<[step |-> "write_lock", id |-> id],
                        [step |-> "apply_tx", id |-> id,
                         locked |-> IsSome(read_storage_key(
                                              locked, pending_execution_key))],
                        [step |-> "delete_lock", id |-> id]>>]]

\* Each outcome returns the state and the address the funds go to
Outcome(st, transfer_address) == [st |-> st, transfer_address |-> transfer_address]

\* The run of the code, the funds going back to the author whatever the
\* code's fate
ExecuteProposalCodeRefundAlways(st, id, proposal_code, proposal_author) ==
    LET ran == RunUnderLock(st, id, proposal_code)
        accepted == ran.tx_result.ok /\ ran.tx_result.val.accepted
    IN  Outcome(
            [PushEvent(ran.st, ProposalEvent("Passed", id, TRUE, accepted)) EXCEPT
                !.write_log = IF accepted THEN commit_tx(@) ELSE drop_tx(@),
                !.trace = Append(@, [step |-> IF accepted THEN "commit_tx"
                                               ELSE "drop_tx", id |-> id]),
                !.passed = IF accepted THEN Append(@, id) ELSE @,
                !.rejected = IF accepted THEN @ ELSE Append(@, id)],
            proposal_author)

\* Some(proposal_code): lines 78-158
execute_proposal_code(st, id, proposal_code, proposal_author) ==
    LET ran == RunUnderLock(st, id, proposal_code) IN
    IF ran.tx_result.ok /\ ran.tx_result.val.accepted
    THEN Outcome(
            [PushEvent(ran.st, ProposalEvent("Passed", id, TRUE, TRUE)) EXCEPT
                !.write_log = commit_tx(@),
                !.trace = Append(@, [step |-> "commit_tx", id |-> id]),
                !.passed = Append(@, id)],
            proposal_author)
    ELSE Outcome(
            [PushEvent(ran.st, ProposalEvent("Passed", id, TRUE, FALSE)) EXCEPT
                !.write_log = drop_tx(@),
                !.trace = Append(@, [step |-> "drop_tx", id |-> id]),
                !.rejected = Append(@, id)],
            slash_fund_address)

\* Ok(true), a passed proposal without code being listed as rejected
ExecutePassedListedAsRejected(st, id) ==
    LET proposal_author == read_storage_key(st.storage, get_author_key(id))
        proposal_code == read_storage_key(st.storage, get_proposal_code_key(id))
    IN  IF ~IsSome(proposal_author)
        THEN Outcome(ReturnErr(st, BadProposal(id, "Invalid proposal author.")),
                     slash_fund_address)
        ELSE IF IsSome(proposal_code)
        THEN execute_proposal_code(st, id, proposal_code[1], proposal_author[1])
        ELSE Outcome(
                [PushEvent(st, ProposalEvent("Passed", id, FALSE, FALSE)) EXCEPT
                    !.rejected = Append(@, id)],
                proposal_author[1])

\* Ok(true): lines 63-174
execute_passed_proposal(st, id) ==
    LET proposal_author == read_storage_key(st.storage, get_author_key(id))
        proposal_code == read_storage_key(st.storage, get_proposal_code_key(id))
    IN  IF ~IsSome(proposal_author)
        THEN Outcome(ReturnErr(st, BadProposal(id, "Invalid proposal author.")),
                     slash_fund_address)
        ELSE IF IsSome(proposal_code)
        THEN execute_proposal_code(st, id, proposal_code[1], proposal_author[1])
        ELSE Outcome(
                [PushEvent(st, ProposalEvent("Passed", id, FALSE, FALSE)) EXCEPT
                    !.passed = Append(@, id)],
                proposal_author[1])

\* The match on the tally, a rejected tally being reported as failed
TallyOutcomeRejectedAsFailed(st, id, is_accepted) ==
    IF is_accepted.ok /\ is_accepted.val
    THEN execute_passed_proposal(st, id)
    ELSE Outcome(PushEvent(st, ProposalEvent("Failed", id, FALSE, FALSE)),
                 slash_fund_address)

\* The match on the tally: lines 62-206
tally_outcome(st, id, is_accepted) ==
    IF is_accepted.ok /\ is_accepted.val
    THEN execute_passed_proposal(st, id)
    ELSE IF is_accepted.ok
    THEN Outcome(
            [PushEvent(st, ProposalEvent("Rejected", id, FALSE, FALSE)) EXCEPT
                !.rejected = Append(@, id)],
            slash_fund_address)
    ELSE Outcome(PushEvent(st, ProposalEvent("Failed", id, FALSE, FALSE)),
                 slash_fund_address)

\* The body of the loop: lines 36-215
execute_proposal(st, id) ==
    LET funds == read_storage_key(st.storage, get_funds_key(id))
        proposal_end_epoch ==
            read_storage_key(st.storage, get_voting_end_epoch_key(id))
    IN  IF ~IsSome(funds)
        THEN ReturnErr(st, BadProposal(id, "Invalid proposal funds."))
        ELSE IF ~IsSome(proposal_end_epoch)
        THEN ReturnErr(st, BadProposal(id, "Invalid proposal end_epoch."))
        ELSE
        LET votes == get_proposal_votes(st.storage, proposal_end_epoch[1], id)
            is_accepted ==
                IF votes.ok
                THEN compute_tally(st.storage, proposal_end_epoch[1], votes.val)
                ELSE votes
            decided == tally_outcome(st, id, is_accepted)
        IN  IF IsSome(decided.st.error) THEN decided.st
            ELSE [decided.st EXCEPT
                    !.storage = storage_transfer(@, funds[1], gov_address,
                                                 decided.transfer_address),
                    !.trace = Append(@, [step |-> "transfer", id |-> id,
                                         amount |-> funds[1],
                                         dest |-> decided.transfer_address])]

\* for id in ids: the loop ends at the first error
RECURSIVE execute_proposals(_, _)
execute_proposals(st, ids) ==
    IF ids = <<>> \/ IsSome(st.error) THEN st
    ELSE execute_proposals(execute_proposal(st, Head(ids)), Tail(ids))

\* The orders in which a HashSet may be iterated
Orders(S) ==
    {o \in [1..Cardinality(S) -> S] : \A i, j \in DOMAIN o : o[i] = o[j] => i = j}

\* The call iterating over a copy of the proposal data, which is kept
ExecuteKeepingProposalData(shell, resp_events, order) ==
    LET out == execute_proposals(Running(shell, resp_events), order) IN
    [shell |-> [proposal_data |-> shell.proposal_data, storage |-> out.storage,
                write_log |-> out.write_log],
     events |-> out.events,
     result |-> IF IsSome(out.error) THEN Err(out.error[1])
                ELSE Ok([passed |-> out.passed, rejected |-> out.rejected]),
     trace |-> out.trace]

\* The call tallying every proposal found in storage when it is given none
ExecuteStoredWhenEmpty(shell, resp_events, order) ==
    LET stored == {id \in ProposalIds :
                      IsSome(read_storage_key(shell.storage, get_funds_key(id)))}
        ids == IF order = <<>> THEN SortedSeq(stored) ELSE order
        out == execute_proposals(Running(shell, resp_events), ids)
    IN  [shell |-> [proposal_data |-> {}, storage |-> out.storage,
                    write_log |-> out.write_log],
         events |-> out.events,
         result |-> IF IsSome(out.error) THEN Err(out.error[1])
                    ELSE Ok([passed |-> out.passed, rejected |-> out.rejected]),
         trace |-> out.trace]

\* execute_governance_proposals, the ids being iterated in `order`: the
\* proposal data is taken (left empty) before the loop
execute_governance_proposals(shell, resp_events, order) ==
    LET out == execute_proposals(Running(shell, resp_events), order) IN
    [shell |-> [proposal_data |-> {}, storage |-> out.storage,
                write_log |-> out.write_log],
     events |-> out.events,
     result |-> IF IsSome(out.error) THEN Err(out.error[1])
                ELSE Ok([passed |-> out.passed, rejected |-> out.rejected]),
     trace |-> out.trace]

----------------------------------------------------------------------------
(* Governance: genesis and the proposals that reach the end of their vote  *)

\* The quorum parameter: the least stake that must have voted
MinQuorums == {0, 2}

GenesisStorage(min_quorum) ==
    [k \in StorageKeys |->
        IF k = get_counter_key THEN Some(0)
        ELSE IF k = get_min_quorum_key THEN Some(min_quorum)
        ELSE None]

EmptyWriteLog == [tx |-> {}, block |-> {}]

\* response::FinalizeBlock::default()
EmptyResponse == [events |-> <<>>]

NoCall == [taken |-> {}, result |-> Ok([passed |-> <<>>, rejected |-> <<>>]),
           trace |-> <<>>]

\* The votes stored for a proposal
Votes(yay, nay) == [readable |-> TRUE, yay |-> yay, nay |-> nay]
UnreadableVotes == [readable |-> FALSE, yay |-> {}, nay |-> {}]
PassingVotes == Votes({"validator1", "validator2"}, {"validator3"})
TiedVotes == Votes({"validator2"}, {"validator3"})
LosingVotes == Votes({"validator2"}, {"validator1"})
FewVotes == Votes({"validator2"}, {})

\* What is in storage for a proposal: funds, end epoch and author keys
\* written or not, the code and the votes if any
WellFormed ==
    [funds |-> TRUE, end_epoch |-> TRUE, author |-> TRUE, code |-> None,
     votes |-> None]

Passing == [WellFormed EXCEPT !.votes = Some(PassingVotes)]

ProposalCatalogue ==
    {WellFormed,
     [WellFormed EXCEPT !.author = FALSE],
     [WellFormed EXCEPT !.code = Some(WasmCode("accept"))],
     Passing,
     [Passing EXCEPT !.code = Some(WasmCode("accept"))],
     [Passing EXCEPT !.code = Some(WasmCode("reject"))],
     [Passing EXCEPT !.code = Some(WasmCode("error"))],
     [Passing EXCEPT !.author = FALSE],
     [WellFormed EXCEPT !.votes = Some(TiedVotes)],
     [WellFormed EXCEPT !.votes = Some(LosingVotes)],
     [WellFormed EXCEPT !.votes = Some(FewVotes)],
     [WellFormed EXCEPT !.votes = Some(UnreadableVotes)],
     [WellFormed EXCEPT !.funds = FALSE],
     [WellFormed EXCEPT !.end_epoch = FALSE]}

\* The funds proposal `id` locks, and the epoch its vote ends
FundsOf(id) == id
EndEpochOf(id) == 9

WriteIf(st, cond, key, value) ==
    IF cond THEN storage_write(st, key, value) ELSE st

\* The storage once proposal `id` is in it as `cfg` says, its funds locked
\* in the governance address
write_proposal(st, id, cfg) ==
    LET s1 == storage_write(st, get_counter_key, id)
        s2 == storage_write(s1, balance_key(gov_address),
                            read_balance(s1, gov_address) + FundsOf(id))
        s3 == WriteIf(s2, cfg.funds, get_funds_key(id), FundsOf(id))
        s4 == WriteIf(s3, cfg.end_epoch, get_voting_end_epoch_key(id),
                      EndEpochOf(id))
        s5 == WriteIf(s4, cfg.author, get_author_key(id), AuthorAddress)
        s6 == WriteIf(s5, IsSome(cfg.code), get_proposal_code_key(id),
                      IF IsSome(cfg.code) THEN cfg.code[1] ELSE WasmCode(""))
    IN  WriteIf(s6, IsSome(cfg.votes), get_vote_prefix_key(id),
                IF IsSome(cfg.votes) THEN cfg.votes[1] ELSE UnreadableVotes)

GovShell ==
    [proposal_data |-> proposal_data, storage |-> storage,
     write_log |-> write_log]

\* Nothing of governance has happened
\* No library call has been made
NoInput == [kind |-> "none"]
NoOutput == [kind |-> "none"]

LibIdle ==
    /\ input = NoInput
    /\ output = NoOutput

\* A shell that has answered no request
ShellIdle ==
    /\ mode = "Validator"
    /\ last_height = 0
    /\ tx_queue = <<>>
    /\ gas_meter = 0
    /\ voting_powers = GenesisStakes
    /\ req = NoReq
    /\ resp = NoResp
    /\ rejected = None

GovIdle ==
    /\ proposal_data = {}
    /\ storage = GenesisStorage(0)
    /\ write_log = EmptyWriteLog
    /\ response = EmptyResponse
    /\ call = NoCall
    /\ chain_events = <<>>

----------------------------------------------------------------------------
(* The state machine *)

Shell ==
    [mode |-> mode, last_height |-> last_height, tx_queue |-> tx_queue,
     gas_meter |-> gas_meter, voting_powers |-> voting_powers]

\* The kind of tx a record carries ("Undecodable" / "Invalid" when it is none)
RecordKind(r) ==
    IF ~try_from(r.tx).ok THEN "Undecodable"
    ELSE IF ~process_tx(try_from(r.tx).val).ok THEN "Invalid"
    ELSE process_tx(try_from(r.tx).val).val.kind

IsDecryptedRecord(r) == r.action = "Added" /\ RecordKind(r) = "Decrypted"
IsProtocolRecord(r) == r.action = "Added" /\ RecordKind(r) = "Protocol"
IsMempoolRecord(r) == r.action \in {"Unmodified", "Removed"}

\* Shell::new at genesis
Init ==
    /\ mode \in {"Validator", "Full"}
    /\ last_height = 0
    /\ tx_queue = <<>>
    /\ gas_meter = 0
    /\ voting_powers \in {GenesisStakes, MajorityStakes, ZeroStakes}
    /\ op = "new"
    /\ req = NoReq
    /\ resp = NoResp
    /\ rejected = None
    /\ GovIdle
    /\ LibIdle

\* Tendermint asks this node for a proposal; a panic ends the node
PrepareProposal ==
    /\ resp.status = "none"
    /\ \E request \in Requests(last_height), now \in 0..MaxTime :
         LET out == prepare_proposal(Shell, request, now) IN
         /\ mode' = out.shell.mode
         /\ last_height' = out.shell.last_height
         /\ tx_queue' = out.shell.tx_queue
         /\ gas_meter' = out.shell.gas_meter
         /\ voting_powers' = out.shell.voting_powers
         /\ req' = request
         /\ resp' = IF IsSome(out.panic)
                    THEN [status |-> "panic", tx_records |-> <<>>,
                          msg |-> out.panic[1]]
                    ELSE [status |-> "ok", tx_records |-> out.tx_records,
                          msg |-> ""]
    /\ op' = "prepare_proposal"
    /\ UNCHANGED rejected
    /\ UNCHANGED gov_vars
    /\ UNCHANGED lib_vars

\* The proposal is not decided (ProcessProposal rejects it or the round
\* times out): storage is untouched and a new proposal will be asked for
RejectProposal ==
    /\ resp.status = "ok"
    /\ rejected' = Some(SelectSeq(resp.tx_records, IsDecryptedRecord))
    /\ req' = NoReq
    /\ resp' = NoResp
    /\ op' = "reject"
    /\ UNCHANGED <<mode, last_height, tx_queue, gas_meter, voting_powers>>
    /\ UNCHANGED gov_vars
    /\ UNCHANGED lib_vars

\* The wrappers a block enqueues for the next one
WrappersOf(records) ==
    LET kept == SelectSeq(records, LAMBDA r : r.action = "Unmodified" /\ RecordKind(r) = "Wrapper")
    IN  [i \in 1..Len(kept) |-> process_tx(try_from(kept[i].tx).val).val.w]

\* FinalizeBlock and Commit of the proposed block: the decrypted txs have
\* run, the block's wrappers wait for the next block, gas was spent on
\* every tx applied
CommitBlock ==
    /\ resp.status = "ok"
    /\ last_height < MaxHeight
    /\ tx_queue' = WrappersOf(resp.tx_records)
    /\ last_height' = last_height + 1
    /\ gas_meter' = Len(SelectSeq(resp.tx_records, LAMBDA r : r.action # "Removed"))
    /\ req' = NoReq
    /\ resp' = NoResp
    /\ op' = "commit"
    /\ rejected' = None
    /\ UNCHANGED <<mode, voting_powers>>
    /\ UNCHANGED gov_vars
    /\ UNCHANGED lib_vars

Next == PrepareProposal \/ RejectProposal \/ CommitBlock

Spec == Init /\ [][Next]_vars

----------------------------------------------------------------------------
(* The state machine of a node that is not a validator: it follows the     *)
(* chain, applying the blocks the validators propose, and answers          *)
(* PrepareProposal whenever it is asked                                    *)

FullNodeInit ==
    /\ mode = "Full"
    /\ last_height = 0
    /\ tx_queue = <<>>
    /\ gas_meter = 0
    /\ voting_powers \in {GenesisStakes, MajorityStakes}
    /\ op = "new"
    /\ req = NoReq
    /\ resp = NoResp
    /\ rejected = None
    /\ GovIdle
    /\ LibIdle

\* FinalizeBlock and Commit of a block proposed by a validator out of the
\* same chain state: its wrappers wait for the next block, gas was spent
\* on every tx applied
ApplyBlock ==
    /\ resp.status = "none"
    /\ last_height < MaxHeight
    /\ \E request \in Requests(last_height) :
         LET block == prepare_proposal([Shell EXCEPT !.mode = "Validator"],
                                       request, 0)
         IN  /\ ~IsSome(block.panic)
             /\ tx_queue' = WrappersOf(block.tx_records)
             /\ gas_meter' = Len(SelectSeq(block.tx_records,
                                           LAMBDA r : r.action # "Removed"))
    /\ last_height' = last_height + 1
    /\ op' = "commit"
    /\ rejected' = None
    /\ UNCHANGED <<mode, voting_powers, req, resp>>
    /\ UNCHANGED gov_vars
    /\ UNCHANGED lib_vars

FullNodeNext == PrepareProposal \/ RejectProposal \/ ApplyBlock

FullNodeSpec == FullNodeInit /\ [][FullNodeNext]_vars

----------------------------------------------------------------------------
(* The state machine of governance: proposals reach the end of their vote  *)
(* and FinalizeBlock tallies them                                          *)

GovInit ==
    /\ mode = "Validator"
    /\ last_height = 0
    /\ tx_queue = <<>>
    /\ gas_meter = 0
    /\ voting_powers = GenesisStakes
    /\ op = "new"
    /\ req = NoReq
    /\ resp = NoResp
    /\ rejected = None
    /\ proposal_data = {}
    /\ storage \in {GenesisStorage(q) : q \in MinQuorums}
    /\ write_log = EmptyWriteLog
    /\ response = EmptyResponse
    /\ call = NoCall
    /\ chain_events = <<>>
    /\ LibIdle

\* A new proposal (ids are given in sequence) is stored, voted on, and its
\* id is put in shell.proposal_data when its voting period ends
SubmitProposal ==
    /\ storage[get_counter_key][1] < MaxProposals
    /\ \E cfg \in ProposalCatalogue :
          LET id == storage[get_counter_key][1] + 1 IN
          /\ storage' = write_proposal(storage, id, cfg)
          /\ proposal_data' = proposal_data \cup {id}
    /\ op' = "init_proposal"
    /\ UNCHANGED <<write_log, response, call, chain_events>>
    /\ UNCHANGED shell_vars
    /\ UNCHANGED lib_vars

\* FinalizeBlock calls execute_governance_proposals with the response of
\* the block
ExecuteGovernanceProposals ==
    /\ \E order \in Orders(proposal_data) :
          LET out == execute_governance_proposals(GovShell,
                                                  EmptyResponse.events, order)
          IN  /\ proposal_data' = out.shell.proposal_data
              /\ storage' = out.shell.storage
              /\ write_log' = out.shell.write_log
              /\ response' = [events |-> out.events]
              /\ call' = [taken |-> proposal_data, result |-> out.result,
                          trace |-> out.trace]
              /\ chain_events' = chain_events \o out.events
    /\ op' = "execute_governance_proposals"
    /\ UNCHANGED shell_vars
    /\ UNCHANGED lib_vars

GovNext == SubmitProposal \/ ExecuteGovernanceProposals

GovSpec == GovInit /\ [][GovNext]_vars

----------------------------------------------------------------------------
(* A transaction in the hands of a client or a node (core/src/proto/       *)
(* types.rs): it is signed, gets inner blobs attached or removed, has its  *)
(* code contracted to its hash, is sent over the wire and has its          *)
(* signature verified.  `input` holds the tx and, as `origin`, the tx as   *)
(* it was built or last signed.                                            *)

Keypairs == {"albert", "bertha"}

TxCodes == {Literal(RawBytes(100)), Literal(EmptyBytes),
            HashCode(hash_tx(RawBytes(100)))}

TxDatas == {None, Some(EmptyBytes), Some(RawBytes(1))}

\* EncryptedTx::encrypt of an inner tx, and of its code
InnerTxCiphertexts == {Encrypt(to_bytes(InnerTx(n))) : n \in 1..2}
InnerCodeCiphertexts == {Encrypt(RawBytes(100))}

WellFormedTxs ==
    [code : TxCodes, data : TxDatas, timestamp : 0..MaxTime,
     inner_tx : {None} \cup {Some(c) : c \in InnerTxCiphertexts},
     inner_tx_code : {None} \cup {Some(c) : c \in InnerCodeCiphertexts}]

\* The data of the tx is a SignedTxData
IsSigned(tx) == IsSome(tx.data) /\ tx.data[1].tag = "signed"

TxInit ==
    /\ ShellIdle
    /\ GovIdle
    /\ op = "new"
    /\ \E tx \in WellFormedTxs : input = [tx |-> tx, origin |-> tx]
    /\ output = NoOutput

TxSign ==
    /\ ~IsSigned(input.tx)
    /\ \E keypair \in Keypairs :
          LET signed == sign(input.tx, keypair)
          IN  input' = [tx |-> signed, origin |-> signed]
    /\ output' = NoOutput
    /\ op' = "sign"
    /\ UNCHANGED <<shell_vars, gov_vars>>

\* attach_inner_tx, or a change of the attached inner tx
TxAttachInnerTx ==
    /\ \E c \in InnerTxCiphertexts :
          /\ input.tx.inner_tx # Some(c)
          /\ input' = [input EXCEPT !.tx.inner_tx = Some(c)]
    /\ output' = NoOutput
    /\ op' = "attach_inner_tx"
    /\ UNCHANGED <<shell_vars, gov_vars>>

TxAttachInnerTxCode ==
    /\ \E c \in InnerCodeCiphertexts :
          /\ input.tx.inner_tx_code # Some(c)
          /\ input' = [input EXCEPT !.tx.inner_tx_code = Some(c)]
    /\ output' = NoOutput
    /\ op' = "attach_inner_tx_code"
    /\ UNCHANGED <<shell_vars, gov_vars>>

\* The inner blobs are taken off the tx
TxDetachInner ==
    /\ IsSome(input.tx.inner_tx) \/ IsSome(input.tx.inner_tx_code)
    /\ input' = [input EXCEPT !.tx.inner_tx = None, !.tx.inner_tx_code = None]
    /\ output' = NoOutput
    /\ op' = "detach_inner"
    /\ UNCHANGED <<shell_vars, gov_vars>>

TxContract ==
    /\ input.tx.code.kind = "Literal"
    /\ input' = [input EXCEPT !.tx.code = contract(input.tx.code)]
    /\ output' = NoOutput
    /\ op' = "contract"
    /\ UNCHANGED <<shell_vars, gov_vars>>

\* The tx goes over the wire: Tx::try_from(tx.to_bytes())
TxRoundTrip ==
    /\ op # "try_from"
    /\ output' = try_from(to_bytes(input.tx))
    /\ op' = "try_from"
    /\ UNCHANGED <<input, shell_vars, gov_vars>>

\* verify_sig with the signature the tx carries
TxVerifySig ==
    /\ IsSigned(input.tx)
    /\ \E pk \in Keypairs :
          output' = [pk |-> pk,
                     result |-> verify_sig(input.tx, PublicKey(pk),
                                           input.tx.data[1].sig)]
    /\ op' = "verify_sig"
    /\ UNCHANGED <<input, shell_vars, gov_vars>>

TxNext ==
    \/ TxSign
    \/ TxAttachInnerTx
    \/ TxAttachInnerTxCode
    \/ TxDetachInner
    \/ TxContract
    \/ TxRoundTrip
    \/ TxVerifySig

TxSpec == TxInit /\ [][TxNext]_vars

----------------------------------------------------------------------------
(* The state machine of a TxCode that is reduced and expanded in turn *)

CodeBytes == {EmptyBytes, RawBytes(1), RawBytes(100)}

\* A literal, the hash of a code on offer, or a hash of some other code
InitialTxCodes ==
    {Literal(b) : b \in CodeBytes}
        \cup {HashCode(hash_tx(b)) : b \in CodeBytes \cup {RawBytes(7)}}

TxCodeInit ==
    /\ ShellIdle
    /\ GovIdle
    /\ op = "new"
    /\ \E c \in InitialTxCodes :
          input = [code |-> c, origin |-> c, before |-> c, arg |-> None,
                   calls |-> 0]
    /\ output = NoOutput

\* tx_code.contract()
TxCodeContract ==
    /\ input.calls < MaxCalls
    /\ input' = [input EXCEPT !.code = contract(input.code),
                              !.before = input.code,
                              !.arg = None,
                              !.calls = @ + 1]
    /\ output' = NoOutput
    /\ op' = "contract"
    /\ UNCHANGED <<shell_vars, gov_vars>>

\* tx_code.expand(code)
TxCodeExpand ==
    /\ input.calls < MaxCalls
    /\ \E code \in CodeBytes :
          LET out == expand(input.code, code) IN
          /\ input' = [input EXCEPT !.code = out.self,
                                    !.before = input.code,
                                    !.arg = Some(code),
                                    !.calls = @ + 1]
          /\ output' = out.result
    /\ op' = "expand"
    /\ UNCHANGED <<shell_vars, gov_vars>>

TxCodeNext == TxCodeContract \/ TxCodeExpand

TxCodeSpec == TxCodeInit /\ [][TxCodeNext]_vars

----------------------------------------------------------------------------
(* Reading a response *)

Records == resp.tx_records

\* prepare_proposal has just returned a response
Responded == op = "prepare_proposal" /\ resp.status = "ok"

\* ... on a node that runs as a validator, the proposer
Proposed == Responded /\ mode = "Validator"

\* the height of the block being proposed
ProposalHeight == last_height + 1

ProtocolSection == SelectSeq(Records, IsProtocolRecord)
MempoolSection == SelectSeq(Records, IsMempoolRecord)
DecryptedSection == SelectSeq(Records, IsDecryptedRecord)

TxsOf(records) == [i \in 1..Len(records) |-> records[i].tx]

\* The DecryptedTx / the digest a record carries
DecryptedOf(r) == process_tx(try_from(r.tx).val).val.d
DigestOf(r) == process_tx(try_from(r.tx).val).val.p.tx.digest

\* The mempool txs that are wrappers carrying a signature of the key
\* they name
AcceptedWrappers == {MempoolWrapperA, MempoolWrapperB}

\* A decrypted tx is the counterpart of a queued wrapper
Corresponds(d, wrapper) ==
    \/ d.kind = "Undecryptable" /\ d.wrapper = Some(wrapper)
    \/ d.kind = "Decrypted" /\ hash_tx(to_bytes(d.tx[1])) = wrapper.tx_hash

\* how many txs of a mempool of n are looked at
Examined(n) == Min(n, 1 + n \div 2)

----------------------------------------------------------------------------
(* C1: in validator mode the returned tx_records are, in this order and    *)
(* without interleaving, the protocol txs of the last commit's vote        *)
(* extensions, the records of the mempool txs, and the decrypted txs of    *)
(* the tx queue.                                                           *)
C1_SectionsInOrder ==
    Proposed =>
        \E i, j \in 0..Len(Records) :
            /\ i <= j
            /\ \A k \in 1..i : IsProtocolRecord(Records[k])
            /\ \A k \in (i + 1)..j : IsMempoolRecord(Records[k])
            /\ \A k \in (j + 1)..Len(Records) : IsDecryptedRecord(Records[k])
            /\ i = IF last_height = 0 THEN 0 ELSE 1
            /\ \A k \in 1..i :
                  DOMAIN DigestOf(Records[k]).signatures \subseteq
                      {req.local_last_commit[1].votes[v].vote_extension
                            .ethereum_events.data.validator_addr :
                          v \in 1..Len(req.local_last_commit[1].votes)}
            /\ j - i = Examined(Len(req.txs))
            /\ TxsOf(SubSeq(Records, i + 1, j)) = SubSeq(req.txs, 1, j - i)
            /\ Len(Records) - j = Len(tx_queue)
            /\ \A k \in 1..Len(tx_queue) :
                  Corresponds(DecryptedOf(Records[j + k]), tx_queue[k])

C1_Witness ==
    /\ Proposed
    /\ Len(ProtocolSection) > 0
    /\ Len(MempoolSection) > 0
    /\ Len(DecryptedSection) > 0

(* C2: the decrypted txs are emitted in the FIFO order of the queue: the   *)
(* i-th decrypted record corresponds to the i-th queue entry.              *)
C2_DecryptedFifo ==
    Responded =>
        \A i \in 1..Len(DecryptedSection) :
            /\ i <= Len(tx_queue)
            /\ Corresponds(DecryptedOf(DecryptedSection[i]), tx_queue[i])

C2_Witness ==
    /\ Proposed
    /\ Len(DecryptedSection) = 2
    /\ tx_queue[1] # tx_queue[2]

(* C3: build_decrypted_txs emits exactly one Added record per queue entry, *)
(* DecryptedTx::Decrypted when the wrapper decrypts and                    *)
(* DecryptedTx::Undecryptable carrying that wrapper when it does not.      *)
C3_OneCounterpartEach ==
    Proposed =>
        /\ Len(DecryptedSection) = Len(tx_queue)
        /\ \A i \in 1..Len(DecryptedSection) :
              /\ DecryptedSection[i].action = "Added"
              /\ IF hash_tx(Decrypt(tx_queue[i].inner_tx)) = tx_queue[i].tx_hash
                 THEN /\ DecryptedOf(DecryptedSection[i]).kind = "Decrypted"
                      /\ to_bytes(DecryptedOf(DecryptedSection[i]).tx[1])
                             = Decrypt(tx_queue[i].inner_tx)
                 ELSE /\ DecryptedOf(DecryptedSection[i]).kind = "Undecryptable"
                      /\ DecryptedOf(DecryptedSection[i]).wrapper = Some(tx_queue[i])

C3_Witness ==
    /\ Proposed
    /\ \E i, j \in 1..Len(DecryptedSection) :
          /\ DecryptedOf(DecryptedSection[i]).kind = "Decrypted"
          /\ DecryptedOf(DecryptedSection[j]).kind = "Undecryptable"

C5_KeepCap ==
    Proposed =>
        LET n == Len(req.txs)
            kept == SelectSeq(Records, LAMBDA r : r.action = "Unmodified")
        IN  /\ Len(kept) <= (n + 1) \div 2 + 1
            /\ n >= 1 =>
                  /\ Len(MempoolSection) >= 1
                  /\ MempoolSection[1].tx = req.txs[1]
                  /\ req.txs[1] \in AcceptedWrappers
                        => MempoolSection[1].action = "Unmodified"

C5_Witness ==
    /\ Proposed
    /\ Len(req.txs) = 4
    /\ \A i \in 1..4 : req.txs[i] \in AcceptedWrappers
    /\ Len(SelectSeq(Records, LAMBDA r : r.action = "Unmodified")) = 3

(* C6: prepare_proposal leaves the tx queue (and the rest of the shell)   *)
(* alone and only resets the gas meter, so that the proposal made after a  *)
(* rejected one has the same decrypted section.  As claimed: the same      *)
(* records.                                                                *)
C6_SameDecryptedRecords ==
    [][op' = "prepare_proposal" =>
          /\ tx_queue' = tx_queue
          /\ last_height' = last_height
          /\ mode' = mode
          /\ voting_powers' = voting_powers
          /\ gas_meter' = 0
          /\ (IsSome(rejected) /\ resp'.status = "ok")
                => SelectSeq(resp'.tx_records, IsDecryptedRecord) = rejected[1]
      ]_vars

\* The decrypted txs a sequence of records carries, without the envelope
\* (and its timestamp) each is sent in
PayloadsOf(records) == [i \in 1..Len(records) |-> DecryptedOf(records[i])]

(* C6, as the code has it: the queue and the rest of the shell are left    *)
(* alone, the gas meter is reset, and the proposal made after a rejected   *)
(* one carries the same decrypted txs in the same order; the records are   *)
(* the same up to the timestamp of the Tx each decrypted tx is wrapped in. *)
C6_SameDecryptedTxs ==
    [][op' = "prepare_proposal" =>
          /\ tx_queue' = tx_queue
          /\ last_height' = last_height
          /\ mode' = mode
          /\ voting_powers' = voting_powers
          /\ gas_meter' = 0
          /\ (IsSome(rejected) /\ resp'.status = "ok")
                => PayloadsOf(SelectSeq(resp'.tx_records, IsDecryptedRecord))
                       = PayloadsOf(rejected[1])
      ]_vars

C6_Witness ==
    /\ Proposed
    /\ IsSome(rejected)
    /\ Len(rejected[1]) > 0
    /\ DecryptedSection # rejected[1]

(* C7: at genesis (last committed height 0) no vote extension protocol tx  *)
(* is emitted whatever local_last_commit holds, None included; above       *)
(* genesis the proposer treats a missing local_last_commit as fatal.       *)
C7_GenesisAndMissingCommit ==
    op = "prepare_proposal" =>
        /\ last_height = 0 =>
              /\ resp.status = "ok"
              /\ \A k \in 1..Len(Records) : ~IsProtocolRecord(Records[k])
        /\ (mode = "Validator" /\ last_height > 0
                /\ ~IsSome(req.local_last_commit)) =>
              /\ resp.status = "panic"
              /\ resp.msg = NO_VOTE_EXTENSIONS_MSG
              /\ Records = <<>>

C7_Witness ==
    /\ op = "prepare_proposal"
    /\ mode = "Validator"
    /\ \/ /\ last_height = 0
          /\ IsSome(req.local_last_commit)
          /\ Len(req.local_last_commit[1].votes) > 0
          /\ Len(Records) > 0
       \/ /\ last_height > 0
          /\ ~IsSome(req.local_last_commit)
          /\ resp.status = "panic"

(* C8, as claimed: with an empty mempool and an empty tx queue at height 5 *)
(* PrepareProposal returns the empty list.                                 *)
C8_NoOpBlockIsEmpty ==
    (op = "prepare_proposal" /\ ProposalHeight = 5
        /\ req.txs = <<>> /\ tx_queue = <<>>)
    => (resp.status = "ok" /\ Records = <<>>)

(* C8, as the code has it: with an empty mempool and an empty tx queue a   *)
(* returned proposal has no mempool and no decrypted record; it is empty   *)
(* at genesis and on a node that is no validator, and on a validator above *)
(* genesis (height 5 included) it is the one protocol tx carrying the      *)
(* Ethereum events digest.                                                 *)
C8_NoOpBlockIsDigestOnly ==
    (Responded /\ req.txs = <<>> /\ tx_queue = <<>>) =>
        IF mode = "Validator" /\ last_height > 0
        THEN /\ Len(Records) = 1
             /\ Records[1].action = "Added"
             /\ RecordKind(Records[1]) = "Protocol"
        ELSE Records = <<>>

C8_Witness ==
    /\ Proposed
    /\ ProposalHeight = 5
    /\ req.txs = <<>>
    /\ tx_queue = <<>>
    /\ Len(Records) = 1

\* The validators whose vote extension in the request counts
ValidSigners ==
    LET votes == req.local_last_commit[1].votes IN
    {votes[i].vote_extension.ethereum_events.data.validator_addr :
        i \in {j \in 1..Len(votes) :
                 ValidVext(voting_powers, last_height,
                           votes[j].vote_extension.ethereum_events)}}

TotalStake == SumOver(voting_powers, DOMAIN voting_powers)

(* C9: when the valid vote extensions received for the last committed      *)
(* height are backed by at most 2/3 of the total stake, the proposer       *)
(* aborts with "A Tendermint quorum should never decide ..." and returns   *)
(* no proposal.                                                            *)
C9_NoQuorumIsFatal ==
    (op = "prepare_proposal" /\ mode = "Validator" /\ last_height > 0
        /\ IsSome(req.local_last_commit)
        /\ 3 * SumOver(voting_powers, ValidSigners) <= 2 * TotalStake)
    => /\ resp.status = "panic"
       /\ resp.msg = NOT_ENOUGH_VOTING_POWER_MSG
       /\ Records = <<>>

C9_Witness ==
    /\ op = "prepare_proposal"
    /\ mode = "Validator"
    /\ last_height > 0
    /\ IsSome(req.local_last_commit)
    /\ ValidSigners = {"validator1"}
    /\ 3 * SumOver(voting_powers, ValidSigners) = 2 * TotalStake
    /\ TotalStake > 0
    /\ resp.status = "panic"

(* C10: every event of an Ethereum events digest in a proposal is signed   *)
(* by validators holding more than 2/3 of the total stake.                 *)
C10_DigestEventsHaveQuorum ==
    Responded =>
        \A k \in 1..Len(Records) :
            IsProtocolRecord(Records[k]) =>
                \A e \in DigestOf(Records[k]).events :
                    /\ e.signers \subseteq DOMAIN voting_powers
                    /\ 3 * SumOver(voting_powers, e.signers) > 2 * TotalStake

C10_Witness ==
    /\ Proposed
    /\ Len(ProtocolSection) = 1
    /\ {e.event : e \in DigestOf(ProtocolSection[1]).events} = {1}
    /\ \E i \in 1..Len(req.local_last_commit[1].votes) :
          /\ ValidVext(voting_powers, last_height,
                       req.local_last_commit[1].votes[i].vote_extension.ethereum_events)
          /\ 2 \in Range(req.local_last_commit[1].votes[i].vote_extension
                            .ethereum_events.data.ethereum_events)

----------------------------------------------------------------------------
(* Reading the vote extensions of a request *)

\* the proposer was asked for a block above genesis with a last commit
AskedWithCommit ==
    /\ op = "prepare_proposal"
    /\ mode = "Validator"
    /\ last_height > 0
    /\ IsSome(req.local_last_commit)

RequestVexts == split_vote_extensions(req.local_last_commit[1].votes)

\* a bad signature, another height, or a signer that is no validator
BadSigHeightOrSigner(v) ==
    \/ ~VextVerify(v, ProtocolKeyOf(v.data.validator_addr))
    \/ v.data.block_height # last_height
    \/ v.data.validator_addr \notin DOMAIN voting_powers

ListsDuplicate(v) == ~NoDuplicates(v.data.ethereum_events)

(* C11: a vote extension with a bad signature, with a block height other   *)
(* than the last committed one, or signed by an address that is no         *)
(* validator is dropped: a proposal is made only when the remaining        *)
(* extensions hold the quorum, and every signature and every signer of the *)
(* digest comes from a remaining extension that reports the event.         *)
C11_InvalidVextsContributeNothing ==
    AskedWithCommit =>
        LET counted == {v \in Range(RequestVexts) : ~BadSigHeightOrSigner(v)} IN
        /\ resp.status = "ok" =>
              HasQuorum(voting_powers, {v.data.validator_addr : v \in counted})
        /\ \A k \in 1..Len(Records) :
              IsProtocolRecord(Records[k]) =>
                  /\ \A a \in DOMAIN DigestOf(Records[k]).signatures :
                        \E v \in counted :
                            /\ v.data.validator_addr = a
                            /\ v.sig = DigestOf(Records[k]).signatures[a]
                  /\ \A e \in DigestOf(Records[k]).events :
                        \A a \in e.signers :
                            \E v \in counted :
                                /\ v.data.validator_addr = a
                                /\ e.event \in Range(v.data.ethereum_events)

C11_Witness ==
    /\ AskedWithCommit
    /\ resp.status = "ok"
    /\ Len(ProtocolSection) = 1
    /\ \E v \in Range(RequestVexts) :
          /\ BadSigHeightOrSigner(v)
          /\ Len(v.data.ethereum_events) > 0

(* C12: a vote extension that lists an Ethereum event twice is dropped as  *)
(* a whole: when every extension of the last commit is such, there is no   *)
(* digest (the proposer aborts for want of voting power), and no digest    *)
(* carries the signature of such an extension.                             *)
C12_DupedVextsDropped ==
    AskedWithCommit =>
        /\ (\A v \in Range(RequestVexts) : ListsDuplicate(v)) =>
              /\ resp.status = "panic"
              /\ resp.msg = NOT_ENOUGH_VOTING_POWER_MSG
        /\ \A k \in 1..Len(Records) :
              IsProtocolRecord(Records[k]) =>
                  \A v \in Range(RequestVexts) :
                      ListsDuplicate(v) =>
                          \A a \in DOMAIN DigestOf(Records[k]).signatures :
                              DigestOf(Records[k]).signatures[a] # v.sig

C12_Witness ==
    /\ AskedWithCommit
    /\ Len(RequestVexts) > 0
    /\ \A v \in Range(RequestVexts) :
          /\ ListsDuplicate(v)
          /\ ~BadSigHeightOrSigner(v)
    /\ HasQuorum(voting_powers,
                 {v.data.validator_addr : v \in Range(RequestVexts)})
    /\ resp.status = "panic"

\* The vote extensions of the request that count
ValidVexts ==
    {v \in Range(RequestVexts) : ValidVext(voting_powers, last_height, v)}

\* The one protocol tx of a proposal and the digest it carries
HasDigest == AskedWithCommit /\ resp.status = "ok"
ProtocolTxOf(r) == process_tx(try_from(r.tx).val).val.p

OneVextEach ==
    \A v, w \in ValidVexts :
        v.data.validator_addr = w.data.validator_addr => v = w

AllEventsHaveQuorum ==
    \A v \in ValidVexts :
        \A ev \in Range(v.data.ethereum_events) :
            HasQuorum(voting_powers,
                      {w.data.validator_addr :
                          w \in {x \in ValidVexts :
                                   ev \in Range(x.data.ethereum_events)}})

----------------------------------------------------------------------------
(* Reading a call of execute_governance_proposals *)

\* execute_governance_proposals has just returned
Tallied == op = "execute_governance_proposals"

\* The events of the response about proposal `id`
EventsOf(id) ==
    SelectSeq(response.events,
              LAMBDA e : e.attributes.proposal_id = ToString(id))

\* The transfers the call made for proposal `id`
TransfersOf(id) ==
    SelectSeq(call.trace, LAMBDA t : t.step = "transfer" /\ t.id = id)

\* The ids the call emitted an event for, and those of the proposal data
\* it never came to
Evented == {id \in ProposalIds : EventsOf(id) # <<>>}

HasKey(key) == IsSome(storage[key])

\* The Yay and Nay stake stored for a proposal whose votes can be read
StoredVotes(id) ==
    IF HasKey(get_vote_prefix_key(id)) THEN storage[get_vote_prefix_key(id)][1]
    ELSE Votes({}, {})

YayStake(id) == SumOver(validator_stakes(storage, EndEpochOf(id)), StoredVotes(id).yay)
NayStake(id) == SumOver(validator_stakes(storage, EndEpochOf(id)), StoredVotes(id).nay)

(* C14, as claimed: a proposal without its funds key, its voting end epoch *)
(* key or its votes gets an event with tally Failed and its funds go to    *)
(* the slash fund; the call returns no error and every other proposal of   *)
(* the call is processed.                                                  *)
C14_MissingFieldIsFailedTally ==
    Tallied =>
        /\ call.result.ok
        /\ \A id \in call.taken :
              /\ Len(EventsOf(id)) = 1
              /\ (\/ ~HasKey(get_funds_key(id))
                  \/ ~HasKey(get_voting_end_epoch_key(id))
                  \/ ~HasKey(get_vote_prefix_key(id))) =>
                    /\ EventsOf(id)[1].attributes.tally_result = "Failed"
                    /\ Len(TransfersOf(id)) = 1
                    /\ TransfersOf(id)[1].dest = slash_fund_address

\* What the code does instead: the call returns Error::BadProposal at the
\* proposal whose funds or end epoch key is missing, with no event and no
\* transfer for it
C14_Witness ==
    /\ Tallied
    /\ ~call.result.ok
    /\ \E id \in call.taken :
          /\ ~HasKey(get_funds_key(id)) \/ ~HasKey(get_voting_end_epoch_key(id))
          /\ EventsOf(id) = <<>>
          /\ TransfersOf(id) = <<>>
    /\ \E id \in call.taken :
          /\ HasKey(get_funds_key(id))
          /\ HasKey(get_voting_end_epoch_key(id))
          /\ EventsOf(id) = <<>>

(* C15: no proposal id has more than one Proposal event in the history of  *)
(* the chain: a call emits events only for ids it took from the proposal   *)
(* data, one at most for each, and leaves the proposal data empty whether  *)
(* it returns Ok or an error.                                              *)
C15_OneEventPerProposal ==
    /\ \A i, j \in 1..Len(chain_events) :
          chain_events[i].attributes.proposal_id
              = chain_events[j].attributes.proposal_id => i = j
    /\ Tallied =>
          /\ proposal_data = {}
          /\ Evented \subseteq call.taken
          /\ \A id \in call.taken : Len(EventsOf(id)) <= 1

C15_Witness ==
    /\ Tallied
    /\ call.taken = {}
    /\ Len(chain_events) = MaxProposals
    /\ response.events = <<>>

(* C16: a call moves, for every proposal it emits an event for, exactly    *)
(* the proposal's funds out of the governance address, once: to the author *)
(* iff the tally passed and the proposal has no code or its code was       *)
(* accepted, to the slash fund otherwise; nothing else is moved.           *)
C16_FundsMovedOnce ==
    [][op' = "execute_governance_proposals" =>
          LET evented == {id \in proposal_data :
                            \E k \in 1..Len(response'.events) :
                               response'.events[k].attributes.proposal_id
                                   = ToString(id)}
              EventOf(id) ==
                  response'.events[CHOOSE k \in 1..Len(response'.events) :
                      response'.events[k].attributes.proposal_id = ToString(id)]
              ToAuthor(id) ==
                  /\ EventOf(id).attributes.tally_result = "Passed"
                  /\ \/ ~IsSome(storage[get_proposal_code_key(id)])
                     \/ storage[get_proposal_code_key(id)] = Some(WasmCode("accept"))
              funds == [id \in evented |-> storage[get_funds_key(id)][1]]
              refunded == {id \in evented : ToAuthor(id)}
              moved == SelectSeq(call'.trace, LAMBDA t : t.step = "transfer")
          IN  /\ Len(moved) = Cardinality(evented)
              /\ \A id \in evented :
                    \E k \in 1..Len(moved) :
                        /\ moved[k].id = id
                        /\ moved[k].amount = funds[id]
                        /\ moved[k].dest = IF ToAuthor(id)
                                           THEN storage[get_author_key(id)][1]
                                           ELSE slash_fund_address
              /\ read_balance(storage', gov_address)
                    = read_balance(storage, gov_address) - SumOver(funds, evented)
              /\ read_balance(storage', AuthorAddress)
                    = read_balance(storage, AuthorAddress)
                          + SumOver(funds, refunded)
              /\ read_balance(storage', slash_fund_address)
                    = read_balance(storage, slash_fund_address)
                          + SumOver(funds, evented \ refunded)
      ]_vars

C16_Witness ==
    /\ Tallied
    /\ call.result.ok
    /\ \E id \in call.taken :
          /\ Len(TransfersOf(id)) = 1
          /\ TransfersOf(id)[1].dest = AuthorAddress
          /\ HasKey(get_proposal_code_key(id))
    /\ \E id \in call.taken :
          /\ Len(TransfersOf(id)) = 1
          /\ TransfersOf(id)[1].dest = slash_fund_address
          /\ HasKey(get_proposal_code_key(id))
          /\ EventsOf(id)[1].attributes.tally_result = "Passed"

\* The proposal has its funds and end epoch keys, and no vote
EndsWithoutVotes(id) ==
    /\ HasKey(get_funds_key(id))
    /\ HasKey(get_voting_end_epoch_key(id))
    /\ ~HasKey(get_vote_prefix_key(id))

(* C17: a proposal whose vote ends without any vote is tallied Rejected:   *)
(* it is in the rejected list and not in the passed list, and it has       *)
(* exactly one Proposal event, with attributes proposal_id = id,           *)
(* tally_result = Rejected, has_proposal_code = 1 (true as u64) and        *)
(* proposal_code_exit_status = 1.                                          *)
C17_NoVotesIsRejected ==
    (Tallied /\ call.result.ok) =>
        \A id \in call.taken :
            EndsWithoutVotes(id) =>
                /\ id \in Range(call.result.val.rejected)
                /\ id \notin Range(call.result.val.passed)
                /\ EventsOf(id) =
                      <<[event_type |-> "Proposal",
                         level |-> "Block",
                         attributes |->
                            [tally_result |-> "Rejected",
                             proposal_id |-> ToString(id),
                             has_proposal_code |-> BoolAsU64(TRUE),
                             proposal_code_exit_status |-> BoolAsU64(TRUE)]]>>

C17_Witness ==
    /\ Tallied
    /\ call.result.ok
    /\ call.taken = {1}
    /\ EndsWithoutVotes(1)
    /\ ~HasKey(get_author_key(1))
    /\ call.result.val.rejected = <<1>>

(* C18: a call with empty proposal data emits no event, returns empty      *)
(* passed and rejected lists, moves no funds and leaves the storage and    *)
(* the write log as they were.                                             *)
C18_NothingToTally ==
    [][(op' = "execute_governance_proposals" /\ proposal_data = {}) =>
          /\ response'.events = <<>>
          /\ call'.result = Ok([passed |-> <<>>, rejected |-> <<>>])
          /\ call'.trace = <<>>
          /\ storage' = storage
          /\ write_log' = write_log
          /\ proposal_data' = {}
      ]_vars

C18_Witness ==
    /\ Tallied
    /\ call.taken = {}
    /\ call.trace = <<>>
    /\ \E id \in ProposalIds : HasKey(get_funds_key(id))
    /\ read_balance(storage, gov_address) > 0

(* C19: a proposal is tallied Passed only if its Yay stake is greater than *)
(* its Nay stake and the voting stake reaches the quorum; with equal Yay   *)
(* and Nay stake, zero on both sides included, it is Rejected.             *)
C19_StrictMajority ==
    Tallied =>
        \A id \in Evented :
            LET tally == EventsOf(id)[1].attributes.tally_result
                readable == StoredVotes(id).readable
            IN  /\ tally = "Passed" =>
                      /\ readable
                      /\ YayStake(id) > NayStake(id)
                      /\ YayStake(id) + NayStake(id)
                            >= storage[get_min_quorum_key][1]
                /\ (readable /\ YayStake(id) = NayStake(id)) =>
                      tally = "Rejected"

C19_Witness ==
    /\ Tallied
    /\ \E id \in Evented :
          /\ StoredVotes(id).readable
          /\ YayStake(id) = NayStake(id)
          /\ YayStake(id) > 0
          /\ YayStake(id) + NayStake(id) >= storage[get_min_quorum_key][1]
    /\ \E id \in Evented :
          EventsOf(id)[1].attributes.tally_result = "Passed"

\* The steps of the call that concern the code of proposal `id`
CodeStepsOf(id) ==
    SelectSeq(call.trace,
              LAMBDA t : t.id = id /\ t.step \in {"write_lock", "apply_tx",
                                                  "delete_lock", "commit_tx",
                                                  "drop_tx"})

CodeRan(id) == CodeStepsOf(id) # <<>>

CodeAccepted(id) == storage[get_proposal_code_key(id)] = Some(WasmCode("accept"))

\* The lock is written before the code runs and deleted after it, the
\* tx-level write log is committed iff the code is accepted and dropped
\* otherwise, and no lock is left in storage
LockAndWriteLogDiscipline ==
    /\ \A id \in ProposalIds : ~HasKey(get_proposal_execution_key(id))
    /\ write_log.tx = {}
    /\ Tallied =>
          \A id \in Evented :
              /\ CodeRan(id) <=>
                    /\ EventsOf(id)[1].attributes.tally_result = "Passed"
                    /\ HasKey(get_proposal_code_key(id))
              /\ CodeRan(id) =>
                    /\ [k \in 1..Len(CodeStepsOf(id)) |-> CodeStepsOf(id)[k].step]
                          = <<"write_lock", "apply_tx", "delete_lock",
                              IF CodeAccepted(id) THEN "commit_tx" ELSE "drop_tx">>
                    /\ CodeStepsOf(id)[2].locked
                    /\ ([seg |-> "parameter", id |-> id] \in write_log.block)
                          <=> CodeAccepted(id)

(* C20, as claimed: the lock and write log discipline holds, and the event *)
(* of a proposal whose code was rejected or failed has tally Passed and    *)
(* reports the code exit status false.                                     *)
C20_CodeExitStatusFalse ==
    /\ LockAndWriteLogDiscipline
    /\ Tallied =>
          \A id \in Evented :
              (CodeRan(id) /\ ~CodeAccepted(id)) =>
                  /\ EventsOf(id)[1].attributes.tally_result = "Passed"
                  /\ EventsOf(id)[1].attributes.proposal_code_exit_status
                        = BoolAsU64(FALSE)

(* C20, as the code has it: for a passed proposal with code the lock key   *)
(* is written before the code runs and deleted after it in every outcome,  *)
(* the tx-level write log is committed iff the code is accepted and        *)
(* dropped otherwise, and no lock key is ever left in storage.  The event  *)
(* of a proposal whose code was rejected or failed keeps tally Passed and  *)
(* is built with code exit status false, which its attribute carries       *)
(* inverted: proposal_code_exit_status = 1, the value the event of a       *)
(* rejected tally carries.                                                 *)
C20_LockAroundCodeAndInvertedStatus ==
    /\ LockAndWriteLogDiscipline
    /\ Tallied =>
          \A id \in Evented :
              CodeRan(id) =>
                  /\ EventsOf(id)
                        = <<ProposalEvent("Passed", id, TRUE, CodeAccepted(id))>>
                  /\ ~CodeAccepted(id) =>
                        /\ EventsOf(id)[1].attributes.tally_result = "Passed"
                        /\ EventsOf(id)[1].attributes.proposal_code_exit_status
                              = BoolAsU64(TRUE)

C20_Witness ==
    /\ Tallied
    /\ \E id \in Evented :
          /\ CodeRan(id)
          /\ storage[get_proposal_code_key(id)] = Some(WasmCode("error"))
    /\ \E id \in Evented :
          /\ CodeRan(id)
          /\ storage[get_proposal_code_key(id)] = Some(WasmCode("reject"))

----------------------------------------------------------------------------
(* shared/src/ledger/eth_bridge/bridge_pool.rs, mod recommendations: the   *)
(* batch of bridge pool transfers a relayer is advised to relay            *)

TRANSFER_FEE == 37500
SIGNATURE_FEE == 24500
VALSET_FEE == 2000

\* u64::MAX and i64::MAX: budgets above every total the model can reach
U64_MAX == 2000000000
I64_MAX == 2000000000

\* test_recommendations::transfer: a pending transfer with the given gas fee
transfer(gas_amount) == [gas_fee |-> gas_amount]

\* PendingTransfer::keccak256
keccak256(t) == [tag |-> "keccak", of |-> t]

\* A conversion that takes the fee left after the transfer fee as the cost
ProcessTransfersFeeAsCost(transfers) ==
    [i \in 1..Len(transfers) |->
        [hash |-> keccak256(transfers[i]),
         cost |-> transfers[i].gas_fee - TRANSFER_FEE,
         transfer |-> transfers[i]]]

\* process_transfers: (hash, cost, transfer) for every transfer
process_transfers(transfers) ==
    [i \in 1..Len(transfers) |->
        [hash |-> keccak256(transfers[i]),
         cost |-> TRANSFER_FEE - transfers[i].gas_fee,
         transfer |-> transfers[i]]]

AlgorithmMode(max_cost) == IF max_cost <= 0 THEN "Greedy" ELSE "Generous"

\* The locals of generate before its loop
GenerateStart(validator_gas) ==
    [profitable |-> TRUE, feasible_region |-> FALSE,
     total_gas |-> validator_gas, total_cost |-> validator_gas,
     total_fees |-> 0, recommendation |-> <<>>]

\* The loop of generate from the i-th entry of contents on; the value is
\* the locals when the loop ends or breaks
RECURSIVE GenerateLoop(_, _, _, _, _)
GenerateLoop(contents, i, st, max_gas, max_cost) ==
    IF i > Len(contents) THEN st
    ELSE LET hash == contents[i].hash
             cost == contents[i].cost
             next_total_gas == st.total_gas + TRANSFER_FEE
             next_total_cost == st.total_cost + cost
             next_total_fees == st.total_fees + contents[i].transfer.gas_fee
             is_feasible == /\ next_total_gas <= max_gas
                            /\ next_total_cost <= max_cost
             pushed == [st EXCEPT !.recommendation = Append(@, hash),
                                  !.total_cost = next_total_cost,
                                  !.total_gas = next_total_gas,
                                  !.total_fees = next_total_fees]
         IN  IF cost < 0
             THEN IF is_feasible
                  THEN GenerateLoop(contents, i + 1,
                                    [pushed EXCEPT !.feasible_region = TRUE],
                                    max_gas, max_cost)
                  ELSE IF st.feasible_region THEN st
                  ELSE GenerateLoop(contents, i + 1, pushed, max_gas, max_cost)
             ELSE IF AlgorithmMode(max_cost) = "Generous"
             THEN IF st.feasible_region /\ ~is_feasible
                  THEN [st EXCEPT !.profitable = FALSE]
                  ELSE GenerateLoop(contents, i + 1,
                                    [pushed EXCEPT !.profitable = FALSE],
                                    max_gas, max_cost)
             ELSE st

\* A generate that takes every transfer of the pool
GenerateWholePool(contents, validator_gas, max_gas, max_cost) ==
    IF contents = <<>> THEN None
    ELSE Some([i \in 1..Len(contents) |-> contents[i].hash])

\* A generate that never looks at the budgets
GenerateIgnoringBudgets(contents, validator_gas, max_gas, max_cost) ==
    LET st == GenerateLoop(contents, 1, GenerateStart(validator_gas),
                           U64_MAX, IF max_cost <= 0 THEN 0 ELSE I64_MAX)
    IN  IF st.recommendation # <<>> THEN Some(st.recommendation) ELSE None

\* generate
generate(contents, validator_gas, max_gas, max_cost) ==
    LET st == GenerateLoop(contents, 1, GenerateStart(validator_gas),
                           max_gas, max_cost)
    IN  IF st.feasible_region /\ st.recommendation # <<>>
        THEN Some(st.recommendation)
        ELSE None

\* VotingPowersMapExt::get_sorted: the validators by decreasing voting
\* power, equal powers by address
get_sorted(powers) ==
    LET addrs == DOMAIN powers
        before(a, b) == \/ powers[a] > powers[b]
                        \/ powers[a] = powers[b] /\ a < b
    IN  CHOOSE s \in [1..Cardinality(addrs) -> addrs] :
            \A i, j \in 1..Cardinality(addrs) : i < j => before(s[i], s[j])

\* The take_while of signature_checks over the signers from the i-th on,
\* `power` being the numerator of the voting power accumulated so far
RECURSIVE TakeWhileBelowQuorum(_, _, _, _)
TakeWhileBelowQuorum(signers, i, power, total_power) ==
    IF i > Len(signers) THEN 0
    ELSE IF 3 * power <= 2 * total_power
         THEN 1 + TakeWhileBelowQuorum(signers, i + 1, power + signers[i].p,
                                       total_power)
         ELSE 0

\* A count that stops as soon as the signers hold 2/3 or more
SignatureChecksAtTwoThirds(powers, sigs) ==
    LET sorted == get_sorted(powers)
        total_power == SumOver(powers, DOMAIN powers)
        signers == SelectSeq([i \in 1..Len(sorted) |->
                                 [a |-> sorted[i], p |-> powers[sorted[i]]]],
                             LAMBDA e : e.a \in sigs)
        count[i \in 1..(Len(signers) + 1), power \in 0..total_power] ==
            IF i > Len(signers) THEN 0
            ELSE IF 3 * power < 2 * total_power
                 THEN 1 + count[i + 1, power + signers[i].p]
                 ELSE 0
    IN  count[1, 0]

\* signature_checks
signature_checks(powers, sigs) ==
    LET sorted == get_sorted(powers)
        total_power == SumOver(powers, DOMAIN powers)
        signers == SelectSeq([i \in 1..Len(sorted) |->
                                 [a |-> sorted[i], p |-> powers[sorted[i]]]],
                             LAMBDA e : e.a \in sigs)
    IN  TakeWhileBelowQuorum(signers, 1, 0, total_power)

\* recommend_batch: the gas cost of hashing the validator set and checking
\* a quorum of signatures
validator_gas_of(powers, sigs) ==
    SIGNATURE_FEE * signature_checks(powers, sigs)
        + VALSET_FEE * Cardinality(DOMAIN powers)

(* The inputs of the recommender *)

GasFees == {0, 17500, 37500, 75000, 100000}

Repeat(x, n) == [i \in 1..n |-> x]

\* The pools of the unit tests, one of them with fees equal to TRANSFER_FEE
TestPools ==
    {Repeat(transfer(100000), 17),
     Repeat(transfer(100000), 17) \o <<transfer(0)>>,
     Repeat(transfer(TRANSFER_FEE), 17),
     Repeat(transfer(75000), 4),
     Repeat(transfer(75000), 4) \o Repeat(transfer(17500), 2)}

\* Pools in the order recommend_batch sorts them in: increasing cost
SortedPools ==
    {s \in UNION {[1..n -> {transfer(f) : f \in GasFees}] : n \in 0..MaxPool} :
        \A i \in 1..(Len(s) - 1) : s[i].gas_fee >= s[i + 1].gas_fee}

ValidatorGases == {0, 50000, 150000, 300000, 800000}
MaxGases == {150000, 330000, U64_MAX}
MaxCosts == {0, 20000, 100000, I64_MAX}

EthAddrBooks == 1..MaxValset
Amounts == {1, 2, 5}

RecInit ==
    /\ ShellIdle
    /\ GovIdle
    /\ op = "new"
    /\ LibIdle

\* One run of the recommender makes one call of generate
Generate ==
    /\ op = "new"
    /\ \E transfers \in TestPools \cup SortedPools,
          validator_gas \in ValidatorGases,
          max_gas \in MaxGases, max_cost \in MaxCosts :
          /\ input' = [contents |-> process_transfers(transfers),
                       validator_gas |-> validator_gas,
                       max_gas |-> max_gas, max_cost |-> max_cost]
          /\ output' = generate(process_transfers(transfers), validator_gas,
                                max_gas, max_cost)
    /\ op' = "generate"
    /\ UNCHANGED <<shell_vars, gov_vars>>

\* and one of signature_checks, for the validator gas
SignatureChecks ==
    /\ op = "new"
    /\ \E n \in 0..MaxValset :
          \E powers \in [1..n -> Amounts], sigs \in SUBSET EthAddrBooks :
              /\ input' = [voting_powers |-> powers, sigs |-> sigs]
              /\ output' = [checks |-> signature_checks(powers, sigs),
                            validator_gas |-> validator_gas_of(powers, sigs)]
    /\ op' = "signature_checks"
    /\ UNCHANGED <<shell_vars, gov_vars>>

RecNext == Generate \/ SignatureChecks

RecSpec == RecInit /\ [][RecNext]_vars

----------------------------------------------------------------------------
(* shared/src/ledger/eth_bridge/bridge_pool.rs: relay_bridge_pool_proof.   *)
(* `input` is what the relayer talks to: the nonce of the Bridge contract  *)
(* on Ethereum, the batch nonce of the proofs Namada crafts, and the relay *)
(* transactions sent to Ethereum so far.                                   *)

Halted(why) == [halt |-> TRUE, why |-> why, sent |-> None]
Proceeded(proof) == [halt |-> FALSE, why |-> "", sent |-> Some(proof)]

\* construct_bridge_pool_proof followed by AbiDecode::decode: the RelayProof
\* Namada crafts for the transfers
RelayProof(world, transfers) ==
    [batch_nonce |-> world.batch_nonce, transfers |-> transfers]

\* bridge.transfer_to_erc_20_nonce().call()
transfer_to_erc_20_nonce(world) == world.contract_nonce

\* A relayer that sends whenever its proof is ahead of the contract
RelayWhenAhead(world, args, env) ==
    IF ~env.synced THEN Halted("eth_sync")
    ELSE IF ~env.proof THEN Halted("construct_bridge_pool_proof")
    ELSE IF ~env.bridge_active THEN Halted("read_bridge_contract")
    ELSE LET bp_proof == RelayProof(world, args.transfers)
             contract_nonce == transfer_to_erc_20_nonce(world)
         IN  IF bp_proof.batch_nonce >= contract_nonce
             THEN Proceeded(bp_proof)
             ELSE Halted("nonce")

\* relay_bridge_pool_proof: what the call returns and what it sends.  `env`
\* says whether the Ethereum node is synced, whether a proof could be
\* constructed and whether the Bridge contract address is in storage.
relay_bridge_pool_proof(world, args, env) ==
    IF ~env.synced THEN Halted("eth_sync")
    ELSE IF ~env.proof THEN Halted("construct_bridge_pool_proof")
    ELSE IF ~env.bridge_active THEN Halted("read_bridge_contract")
    ELSE LET bp_proof == RelayProof(world, args.transfers)
             contract_nonce == transfer_to_erc_20_nonce(world)
         IN  IF bp_proof.batch_nonce = contract_nonce
             THEN Proceeded(bp_proof)
             ELSE IF bp_proof.batch_nonce < contract_nonce
             THEN Halted("nonce behind")
             ELSE Halted("nonce ahead")

\* The Bridge contract executes a relay transaction: it takes the batch in
\* and moves to the next nonce
transfer_to_erc(world, proof) ==
    [world EXCEPT !.contract_nonce = @ + 1, !.sent = Append(@, proof)]

TransferBatches == {{1}, {1, 2}}

RelayInit ==
    /\ ShellIdle
    /\ GovIdle
    /\ op = "new"
    /\ \E contract_nonce \in 0..MaxNonce, batch_nonce \in 0..MaxNonce :
          input = [contract_nonce |-> contract_nonce,
                   batch_nonce |-> batch_nonce, sent |-> <<>>]
    /\ output = NoOutput

RelayBridgePoolProof ==
    /\ \E transfers \in TransferBatches,
          env \in [synced : BOOLEAN, proof : BOOLEAN, bridge_active : BOOLEAN] :
          LET out == relay_bridge_pool_proof(input, [transfers |-> transfers], env)
          IN  /\ IsSome(out.sent) => input.contract_nonce < MaxNonce
              /\ output' = out
              /\ input' = IF IsSome(out.sent)
                          THEN transfer_to_erc(input, out.sent[1])
                          ELSE input
    /\ op' = "relay_bridge_pool_proof"
    /\ UNCHANGED <<shell_vars, gov_vars>>

\* Namada sees the relay on Ethereum and crafts its proofs with the next
\* nonce
NamadaNextNonce ==
    /\ input.batch_nonce < input.contract_nonce
    /\ input' = [input EXCEPT !.batch_nonce = @ + 1]
    /\ output' = NoOutput
    /\ op' = "next_nonce"
    /\ UNCHANGED <<shell_vars, gov_vars>>

RelayNext == RelayBridgePoolProof \/ NamadaNextNonce

RelaySpec == RelayInit /\ [][RelayNext]_vars

----------------------------------------------------------------------------
(* apps/src/lib/node/ledger/ethereum_oracle/test_tools/mod.rs: the mock    *)
(* Web3 client, driven by the commands a test sends over a channel.  The   *)
(* data of an event is the rank of its command among those sent, so that   *)
(* each injected event can be told from the others.                        *)

MockEventTypes == {"TransferToNamada", "TransferToEthereum"}

\* TestCmd
CmdNormal == [cmd |-> "Normal"]
CmdUnresponsive == [cmd |-> "Unresponsive"]
CmdNewHeight(height) == [cmd |-> "NewHeight", height |-> height]
CmdNewEvent(event_type, data, height) ==
    [cmd |-> "NewEvent", event_type |-> event_type, data |-> data,
     height |-> height]

\* Web3::setup
Web3Setup ==
    [cmd_channel |-> <<>>, active |-> TRUE, latest_block_height |-> 0,
     events |-> <<>>, blocks_processed |-> <<>>,
     last_block_processed |-> None]

\* One arm of the match of check_cmd_channel
ApplyCmd(oracle, c) ==
    CASE c.cmd = "Normal" -> [oracle EXCEPT !.active = TRUE]
      [] c.cmd = "Unresponsive" -> [oracle EXCEPT !.active = FALSE]
      [] c.cmd = "NewHeight" -> [oracle EXCEPT !.latest_block_height = c.height]
      [] c.cmd = "NewEvent" ->
            [oracle EXCEPT !.events =
                Append(@, [event_type |-> c.event_type, data |-> c.data,
                           height |-> c.height])]

\* Web3::check_cmd_channel: every command waiting in the channel is applied
RECURSIVE check_cmd_channel(_)
check_cmd_channel(oracle) ==
    IF oracle.cmd_channel = <<>> THEN oracle
    ELSE check_cmd_channel(
            [ApplyCmd(oracle, Head(oracle.cmd_channel))
                EXCEPT !.cmd_channel = Tail(oracle.cmd_channel)])

\* Web3::eth_block_number
eth_block_number(client) ==
    LET oracle == check_cmd_channel(client) IN
    [client |-> oracle, result |-> Ok(oracle.latest_block_height), seen |-> <<>>]

\* Variant: the events handed out stay pending
CheckForEventsKeepingMatched(client, block_to_check, event_types) ==
    LET oracle == check_cmd_channel(client) IN
    IF oracle.active
    THEN LET ty == Head(event_types)
             Matches(e) == e.event_type = ty /\ block_to_check >= e.height
             matched == SelectSeq(oracle.events, Matches)
             logs == [i \in 1..Len(matched) |-> matched[i].data]
         IN  [client |-> oracle, result |-> Ok(logs), seen |-> logs]
    ELSE [client |-> oracle, result |-> Err("Uh oh, I'm not responding"),
          seen |-> <<>>]

\* Web3::check_for_events: the client after the call, the logs returned (by
\* their data) or the error, and the `seen` signals sent
check_for_events(client, block_to_check, event_types) ==
    LET oracle == check_cmd_channel(client) IN
    IF oracle.active
    THEN LET ty == Head(event_types)
             Matches(e) == e.event_type = ty /\ block_to_check >= e.height
             matched == SelectSeq(oracle.events, Matches)
             logs == [i \in 1..Len(matched) |-> matched[i].data]
             newer == \/ ~IsSome(oracle.last_block_processed)
                      \/ oracle.last_block_processed[1] < block_to_check
         IN  [client |->
                 [oracle EXCEPT
                    !.events = SelectSeq(oracle.events,
                                         LAMBDA e : ~Matches(e)),
                    !.blocks_processed =
                        IF newer THEN Append(@, block_to_check) ELSE @,
                    !.last_block_processed =
                        IF newer THEN Some(block_to_check) ELSE @],
              result |-> Ok(logs),
              seen |-> logs]
    ELSE [client |-> oracle, result |-> Err("Uh oh, I'm not responding"),
          seen |-> <<>>]

(* The state machine of a test that drives the mock client *)

EthHeights == 0..MaxEthHeight

\* The event types a caller asks for, the first of which is served
RequestedEventTypes ==
    {<<ty>> : ty \in MockEventTypes}
        \cup {<<"TransferToNamada", "TransferToEthereum">>}

\* How many times x occurs in the sequence s
Occurrences(s, x) == Cardinality({i \in 1..Len(s) : s[i] = x})

Web3Init ==
    /\ ShellIdle
    /\ GovIdle
    /\ op = "new"
    /\ input = [client |-> Web3Setup,
                sent |-> <<>>,
                returned |-> [d \in 1..MaxCmds |-> 0],
                seen |-> [d \in 1..MaxCmds |-> 0]]
    /\ output = NoOutput

\* The test sends a command: cmd_sender.send(cmd)
SendCmd ==
    /\ Len(input.sent) < MaxCmds
    /\ \E c \in {CmdNormal, CmdUnresponsive}
                \cup {CmdNewHeight(h) : h \in EthHeights \ {0}}
                \cup {CmdNewEvent(ty, Len(input.sent) + 1, h) :
                         ty \in MockEventTypes, h \in EthHeights \ {0}} :
          input' = [input EXCEPT !.client.cmd_channel = Append(@, c),
                                 !.sent = Append(@, c)]
    /\ output' = NoOutput
    /\ op' = "send"
    /\ UNCHANGED <<shell_vars, gov_vars>>

\* The oracle asks for the events of a block
CheckForEvents ==
    /\ \E block_to_check \in EthHeights, event_types \in RequestedEventTypes :
          LET out == check_for_events(input.client, block_to_check, event_types)
          IN  /\ input' =
                    [input EXCEPT
                       !.client = out.client,
                       !.returned =
                           [d \in 1..MaxCmds |->
                               @[d] + IF out.result.ok
                                      THEN Occurrences(out.result.val, d)
                                      ELSE 0],
                       !.seen = [d \in 1..MaxCmds |->
                                    @[d] + Occurrences(out.seen, d)]]
              /\ output' = [block_to_check |-> block_to_check,
                            event_types |-> event_types,
                            result |-> out.result]
    /\ op' = "check_for_events"
    /\ UNCHANGED <<shell_vars, gov_vars>>

\* The oracle asks for the latest block height
EthBlockNumber ==
    /\ op # "eth_block_number"
    /\ LET out == eth_block_number(input.client) IN
          /\ input' = [input EXCEPT !.client = out.client]
          /\ output' = [block_to_check |-> 0, event_types |-> <<>>,
                        result |-> out.result]
    /\ op' = "eth_block_number"
    /\ UNCHANGED <<shell_vars, gov_vars>>

Web3Next == SendCmd \/ CheckForEvents \/ EthBlockNumber

Web3Spec == Web3Init /\ [][Web3Next]_vars

----------------------------------------------------------------------------
(* shared/src/ledger/tx.rs: the client side of a transaction.  A call is   *)
(* given the answers the node will make (`node`) and returns its result    *)
(* with the RPC requests it made, in order (`rpcs`).                       *)

\* TxBroadcastData
DryRunData(tx) == [kind |-> "DryRun", tx |-> tx]
WrapperData(tx, wrapper_hash, decrypted_hash) ==
    [kind |-> "Wrapper", tx |-> tx, wrapper_hash |-> wrapper_hash,
     decrypted_hash |-> decrypted_hash]

\* signing::sign_wrapper: the tx is wrapped and the wrapper signed
sign_wrapper(tx, keypair) ==
    LET wrapper == WrapperTxNew(keypair, tx)
        signed == WrapperSign(wrapper, keypair, 0)
    IN  WrapperData(signed, hash_tx(to_bytes(signed)), wrapper.tx_hash)

\* signing::sign_tx: the signing key is looked up in the wallet; the tx is
\* wrapped unless a dry run is asked for (as in lines 283-287)
sign_tx(wallet, tx, args) ==
    IF ~IsSome(wallet.keypair) THEN Err("Other")
    ELSE IF args.dry_run THEN Ok(DryRunData(tx))
    ELSE Ok(sign_wrapper(tx, wallet.keypair[1]))

\* The requests of the RPC client
RpcBroadcastTxSync(tx_bytes) == [rpc |-> "broadcast_tx_sync", arg |-> tx_bytes]
RpcDryRunTx(tx_bytes) == [rpc |-> "dry_run_tx", arg |-> tx_bytes]
RpcQueryTxStatus(status, tx_hash) ==
    [rpc |-> "query_tx_status", arg |-> [status |-> status, hash |-> tx_hash]]

Returned(result, rpcs) == [result |-> result, rpcs |-> rpcs]

\* Variant: whatever tx the data holds is sent to the mempool
BroadcastTxAnyData(node, to_broadcast) ==
    LET sent == <<RpcBroadcastTxSync(to_bytes(to_broadcast.tx))>> IN
    IF ~node.broadcast.ok
    THEN Returned(Err([error |-> "TxBroadcast", of |-> node.broadcast.err]), sent)
    ELSE IF node.broadcast.val.code = 0
    THEN Returned(Ok(node.broadcast.val), sent)
    ELSE Returned(Err([error |-> "TxBroadcast", of |-> node.broadcast.val]), sent)

\* broadcast_tx: lines 315-353
broadcast_tx(node, to_broadcast) ==
    IF to_broadcast.kind = "DryRun"
    THEN Returned(Err([error |-> "ExpectWrappedRun", of |-> to_broadcast.tx]),
                  <<>>)
    ELSE
    LET sent == <<RpcBroadcastTxSync(to_bytes(to_broadcast.tx))>> IN
    IF ~node.broadcast.ok
    THEN Returned(Err([error |-> "TxBroadcast", of |-> node.broadcast.err]), sent)
    ELSE IF node.broadcast.val.code = 0
    THEN Returned(Ok(node.broadcast.val), sent)
    ELSE Returned(Err([error |-> "TxBroadcast", of |-> node.broadcast.val]), sent)

\* Variant: the Applied event is awaited whatever the Accepted event says
SubmitTxAlwaysAwaitApplied(node, to_broadcast) ==
    IF to_broadcast.kind = "DryRun"
    THEN Returned(Err([error |-> "ExpectWrappedRun", of |-> to_broadcast.tx]),
                  <<>>)
    ELSE
    LET sent == broadcast_tx(node, to_broadcast) IN
    IF ~sent.result.ok THEN sent
    ELSE Returned(Ok(node.applied),
                  sent.rpcs
                    \o <<RpcQueryTxStatus("Accepted", to_broadcast.wrapper_hash),
                         RpcQueryTxStatus("Applied", to_broadcast.decrypted_hash)>>)

\* submit_tx: lines 363-424
submit_tx(node, to_broadcast) ==
    IF to_broadcast.kind = "DryRun"
    THEN Returned(Err([error |-> "ExpectWrappedRun", of |-> to_broadcast.tx]),
                  <<>>)
    ELSE
    LET sent == broadcast_tx(node, to_broadcast) IN
    IF ~sent.result.ok THEN sent
    ELSE
    LET accepted_query ==
            RpcQueryTxStatus("Accepted", to_broadcast.wrapper_hash)
        parsed == node.accepted
    IN  IF parsed.code = 0
        THEN Returned(Ok(node.applied),
                      sent.rpcs
                        \o <<accepted_query,
                             RpcQueryTxStatus("Applied",
                                              to_broadcast.decrypted_hash)>>)
        ELSE Returned(Ok(parsed), sent.rpcs \o <<accepted_query>>)

\* expect_dry_broadcast: lines 1177-1193
expect_dry_broadcast(to_broadcast, ret) ==
    IF to_broadcast.kind = "DryRun"
    THEN Returned(Ok(ret), <<RpcDryRunTx(to_bytes(to_broadcast.tx))>>)
    ELSE Returned(Err([error |-> "ExpectDryRun", of |-> to_broadcast.tx]), <<>>)

\* process_tx of tx.rs: lines 163-204
tx_process_tx(node, wallet, args, tx) ==
    LET signed == sign_tx(wallet, tx, args) IN
    IF ~signed.ok THEN Returned(Err([error |-> signed.err, of |-> tx]), <<>>)
    ELSE
    LET to_broadcast == signed.val IN
    IF args.dry_run THEN expect_dry_broadcast(to_broadcast, <<>>)
    ELSE IF args.broadcast_only
    THEN LET done == broadcast_tx(node, to_broadcast) IN
         IF done.result.ok THEN Returned(Ok(<<>>), done.rpcs) ELSE done
    ELSE LET done == submit_tx(node, to_broadcast) IN
         IF done.result.ok
         THEN Returned(Ok(done.result.val.initialized_accounts), done.rpcs)
         ELSE done

(* The state machine of a client that makes one call *)

\* The answer of the node to broadcast_tx_sync, and the events TxResponse
\* is parsed from
TxResponseOf(status, code, initialized_accounts) ==
    [info |-> status, code |-> code,
     initialized_accounts |-> initialized_accounts]

Nodes ==
    [broadcast : {Err("RpcError"), Ok([code |-> 0]), Ok([code |-> 1])},
     accepted : {TxResponseOf("Accepted", c, <<>>) : c \in {0, 1}},
     applied : {TxResponseOf("Applied", c, a) :
                   c \in {0, 1}, a \in {<<>>, <<"established">>}}]

Wallets == {[keypair |-> None], [keypair |-> Some("albert")]}

TxArgs == [dry_run : BOOLEAN, broadcast_only : BOOLEAN]

TxBroadcastDatas == {DryRunData(InnerTx(1)), sign_wrapper(InnerTx(1), "albert")}

ClientInit ==
    /\ ShellIdle
    /\ GovIdle
    /\ LibIdle
    /\ op = "new"

ProcessTx ==
    /\ op = "new"
    /\ \E node \in Nodes, wallet \in Wallets, args \in TxArgs :
          /\ input = NoInput
          /\ input' = [node |-> node, wallet |-> wallet, args |-> args,
                       tx |-> InnerTx(1)]
          /\ output' = tx_process_tx(node, wallet, args, InnerTx(1))
    /\ op' = "process_tx"
    /\ UNCHANGED <<shell_vars, gov_vars>>

BroadcastTx ==
    /\ op = "new"
    /\ \E node \in Nodes, to_broadcast \in TxBroadcastDatas :
          /\ input' = [node |-> node, to_broadcast |-> to_broadcast]
          /\ output' = broadcast_tx(node, to_broadcast)
    /\ op' = "broadcast_tx"
    /\ UNCHANGED <<shell_vars, gov_vars>>

SubmitTx ==
    /\ op = "new"
    /\ \E node \in Nodes, to_broadcast \in TxBroadcastDatas :
          /\ input' = [node |-> node, to_broadcast |-> to_broadcast]
          /\ output' = submit_tx(node, to_broadcast)
    /\ op' = "submit_tx"
    /\ UNCHANGED <<shell_vars, gov_vars>>

ExpectDryBroadcast ==
    /\ op = "new"
    /\ \E node \in Nodes, to_broadcast \in TxBroadcastDatas :
          /\ input' = [node |-> node, to_broadcast |-> to_broadcast]
          /\ output' = expect_dry_broadcast(to_broadcast, <<>>)
    /\ op' = "expect_dry_broadcast"
    /\ UNCHANGED <<shell_vars, gov_vars>>

ClientNext == ProcessTx \/ BroadcastTx \/ SubmitTx \/ ExpectDryBroadcast

ClientSpec == ClientInit /\ [][ClientNext]_vars

----------------------------------------------------------------------------
(* shared/src/ledger/tx.rs: the submit functions.  `chain` is what the     *)
(* queries of the client find on chain.  A check returns its result, the   *)
(* warnings it printed (eprintln!) and the queries it made; a submit       *)
(* function returns these and the tx it handed to process_tx, if any.      *)

RpcQuery(query, arg) == [rpc |-> query, arg |-> arg]

Checked(result, warnings, rpcs) ==
    [result |-> result, warnings |-> warnings, rpcs |-> rpcs]

\* `if failed { if force { eprintln!(warning); Ok(value) } else { Err(e) } }
\*  else { Ok(value) }`
ForceOrErr(failed, force, value, warning, e, rpcs) ==
    IF ~failed THEN Checked(Ok(value), <<>>, rpcs)
    ELSE IF force THEN Checked(Ok(value), <<warning>>, rpcs)
    ELSE Checked(Err(e), <<>>, rpcs)

\* `?` between two checks: the second runs only if the first returned Ok
AndThen(first, second) ==
    IF ~first.result.ok THEN first
    ELSE Checked(second.result, first.warnings \o second.warnings,
                 first.rpcs \o second.rpcs)

Unchecked == Checked(Ok("unit"), <<>>, <<>>)

\* Variant: an unknown validator is an error whatever `force` says
KnownValidatorOrErrUnforced(chain, validator, force) ==
    IF validator \in chain.validators
    THEN Checked(Ok(validator), <<>>, <<RpcQuery("is_validator", validator)>>)
    ELSE Checked(Err([error |-> "InvalidValidatorAddress", of |-> validator]),
                 <<>>, <<RpcQuery("is_validator", validator)>>)

\* known_validator_or_err: lines 1202-1222
known_validator_or_err(chain, validator, force) ==
    ForceOrErr(validator \notin chain.validators, force, validator,
               "not a known validator",
               [error |-> "InvalidValidatorAddress", of |-> validator],
               <<RpcQuery("is_validator", validator)>>)

\* address_exists_or_err: lines 1227-1249
address_exists_or_err(chain, addr, force, message, err) ==
    ForceOrErr(addr \notin chain.known, force, addr, message,
               [error |-> err, of |-> addr],
               <<RpcQuery("known_address", addr)>>)

token_exists_or_err(chain, token, force) ==
    address_exists_or_err(chain, token, force, "token address doesn't exist",
                          "TokenDoesNotExist")

source_exists_or_err(chain, source, force) ==
    address_exists_or_err(chain, source, force, "source address doesn't exist",
                          "SourceDoesNotExist")

target_exists_or_err(chain, target, force) ==
    address_exists_or_err(chain, target, force, "target address doesn't exist",
                          "TargetLocationDoesNotExist")

\* token::balance_key
token_balance_key(token, owner) == [seg |-> "balance", token |-> token,
                                    owner |-> owner]

\* check_balance_too_low_err: lines 1314-1359
check_balance_too_low_err(chain, token, source, amount, key, force) ==
    LET balance == chain.balance
        rpcs == <<RpcQuery("query_storage_value", key)>>
    IN  IF IsSome(balance)
        THEN ForceOrErr(balance[1] < amount, force, "unit", "balance is lower",
                        [error |-> "BalanceTooLow", of |-> source], rpcs)
        ELSE ForceOrErr(TRUE, force, "unit", "no balance found",
                        [error |-> "NoBalanceForToken", of |-> source], rpcs)

RECURSIVE SumSeq(_)
SumSeq(s) == IF s = <<>> THEN 0 ELSE Head(s) + SumSeq(Tail(s))

\* The end of every submit function: the tx is built and handed to
\* process_tx, unless a check returned an error
Submitted(checks, node, wallet, tx_args, tx) ==
    IF ~checks.result.ok
    THEN [result |-> checks.result, warnings |-> checks.warnings,
          rpcs |-> checks.rpcs, tx |-> None]
    ELSE LET done == tx_process_tx(node, wallet, tx_args, tx) IN
         [result |-> IF done.result.ok THEN Ok("unit") ELSE done.result,
          warnings |-> checks.warnings,
          rpcs |-> checks.rpcs \o done.rpcs,
          tx |-> Some(tx)]

\* Tx::new(tx_code, Some(data))
SdkTx(data) == TxNew(RawBytes(100), Some(BorshBlob(data)), 0)

\* Decimal::ZERO and Decimal::ONE, rates being counted in hundredths
DecimalZero == 0
DecimalOne == 100

Abs(x) == IF x < 0 THEN 0 - x ELSE x

\* submit_validator_commission_change: lines 469-566
submit_validator_commission_change(chain, node, wallet, args) ==
    LET force == args.tx.force
        asked == <<RpcQuery("query_epoch", "unit"),
                   RpcQuery("is_validator", args.validator)>>
        rate_check ==
            ForceOrErr(args.rate < DecimalZero \/ args.rate > DecimalOne,
                       force, "unit", "invalid new commission rate",
                       [error |-> "InvalidCommisionRate", of |-> args.rate],
                       asked)
        queried == <<RpcQuery("query_storage_value", "commission_rate"),
                     RpcQuery("query_storage_value",
                              "max_commission_rate_change")>>
        change_check ==
            IF IsSome(chain.commission_rates) /\ IsSome(chain.max_change)
            THEN LET epoch_change ==
                         Abs(args.rate - chain.commission_rates[1])
                 IN  ForceOrErr(epoch_change > chain.max_change[1], force,
                                "unit", "too large of a change",
                                [error |-> "TooLargeOfChange",
                                 of |-> epoch_change],
                                queried)
            ELSE ForceOrErr(TRUE, force, "unit",
                            "error retrieving from storage",
                            [error |-> "Retrival", of |-> args.validator],
                            queried)
        checks ==
            IF args.validator \in chain.validators
            THEN AndThen(rate_check, change_check)
            ELSE ForceOrErr(TRUE, force, "unit", "not a validator",
                            [error |-> "InvalidValidatorAddress",
                             of |-> args.validator],
                            asked)
    IN  Submitted(checks, node, wallet, args.tx,
                  SdkTx([validator |-> args.validator, new_rate |-> args.rate]))

\* submit_withdraw: lines 569-642
submit_withdraw(chain, node, wallet, args) ==
    LET force == args.tx.force
        epoch_query == Checked(Ok("unit"), <<>>,
                               <<RpcQuery("query_epoch", "unit")>>)
        validator == known_validator_or_err(chain, args.validator, force)
        queried == <<RpcQuery("query_storage_value", "unbond")>>
        unbond_check ==
            IF IsSome(chain.unbonds)
            THEN ForceOrErr(SumSeq(chain.unbonds[1]) = 0, force, "unit",
                            "no unbonded bonds ready to withdraw",
                            [error |-> "NoUnbondReady", of |-> "epoch"],
                            queried)
            ELSE ForceOrErr(TRUE, force, "unit", "no unbonded bonds found",
                            [error |-> "NoUnbondFound", of |-> "unit"],
                            queried)
    IN  Submitted(AndThen(AndThen(epoch_query, validator), unbond_check),
                  node, wallet, args.tx,
                  SdkTx([validator |-> args.validator, source |-> args.source]))

\* submit_unbond: lines 645-723
submit_unbond(chain, node, wallet, args) ==
    LET force == args.tx.force
        validator == known_validator_or_err(chain, args.validator, force)
        bond_source == IF IsSome(args.source) THEN args.source[1]
                       ELSE args.validator
        queried == <<RpcQuery("query_storage_value", "bond")>>
        bond_check ==
            IF IsSome(chain.bonds)
            THEN ForceOrErr(args.amount > SumSeq(chain.bonds[1]), force,
                            "unit", "total bonds lower than the amount",
                            [error |-> "LowerBondThanUnbond",
                             of |-> bond_source],
                            queried)
            ELSE ForceOrErr(TRUE, force, "unit", "no bonds found",
                            [error |-> "NoBondFound", of |-> "unit"], queried)
    IN  Submitted(AndThen(validator, bond_check), node, wallet, args.tx,
                  SdkTx([validator |-> args.validator, amount |-> args.amount,
                         source |-> args.source]))

\* submit_bond: lines 726-781
submit_bond(chain, node, wallet, args) ==
    LET force == args.tx.force
        validator == known_validator_or_err(chain, args.validator, force)
        source == IF IsSome(args.source)
                  THEN source_exists_or_err(chain, args.source[1], force)
                  ELSE Unchecked
        bond_source == IF IsSome(args.source) THEN args.source[1]
                       ELSE args.validator
        balance ==
            check_balance_too_low_err(
                chain, args.native_token, bond_source, args.amount,
                token_balance_key(args.native_token, bond_source), force)
    IN  Submitted(AndThen(AndThen(validator, source), balance),
                  node, wallet, args.tx,
                  SdkTx([validator |-> args.validator, amount |-> args.amount,
                         source |-> args.source]))

\* IbcHeight::new(0, h), IbcHeight::zero, Height::is_zero
IbcHeightNew(revision_number, revision_height) ==
    [revision_number |-> revision_number,
     revision_height |-> revision_height]
IbcHeightZero == IbcHeightNew(0, 0)
is_zero(height) == height.revision_number = 0 /\ height.revision_height = 0

\* IbcTimestamp::none and a timestamp that is set, in seconds
IbcTimestampNone == [time |-> None]
IbcTimestampAt(seconds) == [time |-> Some(seconds)]

\* Variant: without an offset no timeout timestamp is set
IbcTimeoutsWithoutFallback(timeout_height_arg, timeout_sec_offset, now) ==
    LET timeout_height ==
            IF IsSome(timeout_height_arg)
            THEN IbcHeightNew(0, timeout_height_arg[1])
            ELSE IbcHeightZero
    IN  [timeout_height |-> timeout_height,
         timeout_timestamp |->
            IF IsSome(timeout_sec_offset)
            THEN IbcTimestampAt(now + timeout_sec_offset[1])
            ELSE IbcTimestampNone]

\* The timeouts of the message: lines 865-879
ibc_timeouts(timeout_height_arg, timeout_sec_offset, now) ==
    LET timeout_height ==
            IF IsSome(timeout_height_arg)
            THEN IbcHeightNew(0, timeout_height_arg[1])
            ELSE IbcHeightZero
    IN  [timeout_height |-> timeout_height,
         timeout_timestamp |->
            IF IsSome(timeout_sec_offset)
            THEN IbcTimestampAt(now + timeout_sec_offset[1])
            ELSE IF is_zero(timeout_height)
            THEN IbcTimestampAt(now + 3600)
            ELSE IbcTimestampNone]

\* submit_ibc_transfer: lines 814-907
submit_ibc_transfer(chain, node, wallet, args, now) ==
    LET force == args.tx.force
        source == source_exists_or_err(chain, args.source, force)
        token == token_exists_or_err(chain, args.token, force)
        balance ==
            check_balance_too_low_err(
                chain, args.token, args.source, args.amount,
                token_balance_key(args.token, args.source), force)
        timeouts == ibc_timeouts(args.timeout_height, args.timeout_sec_offset,
                                 now)
        msg == [source_port |-> args.port_id,
                source_channel |-> args.channel_id,
                token |-> Some([denom |-> args.token, amount |-> args.amount]),
                sender |-> args.source,
                receiver |-> args.receiver,
                timeout_height |-> timeouts.timeout_height,
                timeout_timestamp |-> timeouts.timeout_timestamp]
    IN  Submitted(AndThen(AndThen(source, token), balance),
                  node, wallet, args.tx, SdkTx(msg))

\* address::masp
masp == "masp"

\* submit_transfer: lines 910-1038.  chain.shielded is the outcome of
\* gen_shielded_transfer
submit_transfer(chain, node, wallet, args) ==
    LET force == args.tx.force
        source == source_exists_or_err(chain, args.source, force)
        target == target_exists_or_err(chain, args.target, force)
        token == token_exists_or_err(chain, args.token, force)
        balance ==
            check_balance_too_low_err(
                chain, args.token, args.source, args.amount,
                token_balance_key(args.token, args.source), force)
        redacted == args.source = masp /\ args.target = masp
        signer == IF IsSome(wallet.keypair) \/ args.source = masp
                  THEN Unchecked
                  ELSE Checked(Err([error |-> "Other", of |-> args.source]),
                               <<>>, <<>>)
        shielded ==
            CASE chain.shielded = "Ok" -> Unchecked
              [] chain.shielded = "ChangeIsNegative" ->
                    Checked(Err([error |-> "NegativeBalanceAfterTransfer",
                                 of |-> args.source]), <<>>, <<>>)
              [] OTHER ->
                    Checked(Err([error |-> "MaspError", of |-> args.source]),
                            <<>>, <<>>)
        transfer_data ==
            [source |-> args.source,
             target |-> args.target,
             token |-> IF redacted THEN args.native_token ELSE args.token,
             amount |-> IF redacted THEN 0 ELSE args.amount]
    IN  Submitted(
            AndThen(AndThen(AndThen(AndThen(AndThen(source, target), token),
                                    balance), signer), shielded),
            node, wallet, args.tx, SdkTx(transfer_data))

\* submit_update_vp: lines 1077-1155
submit_update_vp(chain, node, wallet, args) ==
    LET force == args.tx.force
        address_check ==
            CASE args.addr.kind = "Established" ->
                    ForceOrErr(args.addr.addr \notin chain.known, force, "unit",
                               "address doesn't exist on chain",
                               [error |-> "LocationDoesNotExist",
                                of |-> args.addr.addr],
                               <<RpcQuery("known_address", args.addr.addr)>>)
              [] args.addr.kind = "Implicit" ->
                    ForceOrErr(TRUE, force, "unit",
                               "vp of an implicit address",
                               [error |-> "ImplicitUpdate",
                                of |-> args.addr.addr], <<>>)
              [] OTHER ->
                    ForceOrErr(TRUE, force, "unit",
                               "vp of an internal address",
                               [error |-> "ImplicitInternalError",
                                of |-> args.addr.addr], <<>>)
        code_check ==
            ForceOrErr(~args.vp_code_valid, force, "unit",
                       "vp code validation failed",
                       [error |-> "WasmValidationFailure",
                        of |-> args.addr.addr], <<>>)
    IN  Submitted(AndThen(address_check, code_check), node, wallet, args.tx,
                  SdkTx([addr |-> args.addr.addr,
                         vp_code_valid |-> args.vp_code_valid]))

(* The state machine of a client that makes one submit call *)

\* A node that takes, accepts and applies the tx
GoodNode ==
    [broadcast |-> Ok([code |-> 0]),
     accepted |-> TxResponseOf("Accepted", 0, <<>>),
     applied |-> TxResponseOf("Applied", 0, <<>>)]

GoodWallet == [keypair |-> Some("albert")]

SubmitTxArgs == [force : BOOLEAN, dry_run : BOOLEAN, broadcast_only : {FALSE}]

\* A chain on which every check passes
GoodChain ==
    [validators |-> {"validator"}, known |-> {"albert", "bertha", "nam"},
     balance |-> Some(10), bonds |-> Some(<<5, 5>>), unbonds |-> Some(<<4, 6>>),
     commission_rates |-> Some(40), max_change |-> Some(20),
     shielded |-> "Ok"]

ValidatorSets == {{}, {"validator"}}
KnownSets == SUBSET {"albert", "bertha", "nam"}
Balances == {None, Some(3), Some(10)}
Sources == {None, Some("albert")}

SubmitInit ==
    /\ ShellIdle
    /\ GovIdle
    /\ LibIdle
    /\ op = "new"

Call(fn, chain, args, out) ==
    /\ input' = [chain |-> chain, args |-> args]
    /\ output' = out
    /\ op' = fn
    /\ UNCHANGED <<shell_vars, gov_vars>>

SubmitValidatorCommissionChange ==
    /\ op = "new"
    /\ \E v \in ValidatorSets, rates \in {None, Some(40)},
          max_change \in {None, Some(20)}, rate \in {0 - 10, 50, 70, 200},
          tx_args \in SubmitTxArgs :
          LET chain == [GoodChain EXCEPT !.validators = v,
                                         !.commission_rates = rates,
                                         !.max_change = max_change]
              args == [validator |-> "validator", rate |-> rate,
                       tx |-> tx_args]
          IN  Call("submit_validator_commission_change", chain, args,
                   submit_validator_commission_change(chain, GoodNode,
                                                      GoodWallet, args))

SubmitWithdraw ==
    /\ op = "new"
    /\ \E v \in ValidatorSets, unbonds \in {None, Some(<<>>), Some(<<4, 6>>)},
          source \in Sources, tx_args \in SubmitTxArgs :
          LET chain == [GoodChain EXCEPT !.validators = v, !.unbonds = unbonds]
              args == [validator |-> "validator", source |-> source,
                       tx |-> tx_args]
          IN  Call("submit_withdraw", chain, args,
                   submit_withdraw(chain, GoodNode, GoodWallet, args))

SubmitUnbond ==
    /\ op = "new"
    /\ \E v \in ValidatorSets, bonds \in {None, Some(<<1, 2>>), Some(<<5, 5>>)},
          source \in Sources, tx_args \in SubmitTxArgs :
          LET chain == [GoodChain EXCEPT !.validators = v, !.bonds = bonds]
              args == [validator |-> "validator", source |-> source,
                       amount |-> 5, tx |-> tx_args]
          IN  Call("submit_unbond", chain, args,
                   submit_unbond(chain, GoodNode, GoodWallet, args))

SubmitBond ==
    /\ op = "new"
    /\ \E v \in ValidatorSets, known \in {{}, {"albert"}},
          balance \in Balances, source \in Sources, tx_args \in SubmitTxArgs :
          LET chain == [GoodChain EXCEPT !.validators = v, !.known = known,
                                         !.balance = balance]
              args == [validator |-> "validator", source |-> source,
                       amount |-> 5, native_token |-> "nam", tx |-> tx_args]
          IN  Call("submit_bond", chain, args,
                   submit_bond(chain, GoodNode, GoodWallet, args))

SubmitIbcTransfer ==
    /\ op = "new"
    /\ \E known \in {{}, {"albert"}, {"nam"}, {"albert", "nam"}},
          balance \in Balances,
          timeout_height \in {None, Some(0), Some(5)},
          timeout_sec_offset \in {None, Some(0), Some(60)},
          now \in {1000, 2000},
          tx_args \in SubmitTxArgs :
          LET chain == [GoodChain EXCEPT !.known = known, !.balance = balance]
              args == [source |-> "albert", receiver |-> "receiver",
                       token |-> "nam", amount |-> 5,
                       port_id |-> "transfer", channel_id |-> "channel-0",
                       timeout_height |-> timeout_height,
                       timeout_sec_offset |-> timeout_sec_offset,
                       tx |-> tx_args]
          IN  /\ input' = [chain |-> chain, args |-> args, now |-> now]
              /\ output' = submit_ibc_transfer(chain, GoodNode, GoodWallet,
                                               args, now)
    /\ op' = "submit_ibc_transfer"
    /\ UNCHANGED <<shell_vars, gov_vars>>

SubmitTransfer ==
    /\ op = "new"
    /\ \E known \in KnownSets, balance \in Balances,
          shielded \in {"Ok", "ChangeIsNegative", "Other"},
          source \in {"albert", masp}, target \in {"bertha", masp},
          tx_args \in SubmitTxArgs :
          LET chain == [GoodChain EXCEPT
                          !.known = known \cup {masp},
                          !.balance = balance,
                          !.shielded = IF masp \in {source, target}
                                       THEN shielded ELSE "Ok"]
              args == [source |-> source, target |-> target, token |-> "nam",
                       native_token |-> "nam", amount |-> 5, tx |-> tx_args]
          IN  Call("submit_transfer", chain, args,
                   submit_transfer(chain, GoodNode, GoodWallet, args))

SubmitUpdateVp ==
    /\ op = "new"
    /\ \E known \in {{}, {"albert"}},
          kind \in {"Established", "Implicit", "Internal"},
          vp_code_valid \in BOOLEAN, tx_args \in SubmitTxArgs :
          LET chain == [GoodChain EXCEPT !.known = known]
              args == [addr |-> [kind |-> kind, addr |-> "albert"],
                       vp_code_valid |-> vp_code_valid, tx |-> tx_args]
          IN  Call("submit_update_vp", chain, args,
                   submit_update_vp(chain, GoodNode, GoodWallet, args))

SubmitNext ==
    \/ SubmitValidatorCommissionChange
    \/ SubmitWithdraw
    \/ SubmitUnbond
    \/ SubmitBond
    \/ SubmitIbcTransfer
    \/ SubmitTransfer
    \/ SubmitUpdateVp

SubmitSpec == SubmitInit /\ [][SubmitNext]_vars

----------------------------------------------------------------------------
(* ethereum_bridge/src/protocol/transactions/utils.rs: the voting powers   *)
(* of the validators that voted, at the heights they voted at              *)

RECURSIVE Gcd(_, _)
Gcd(a, b) == IF b = 0 THEN a ELSE Gcd(b, a % b)

\* FractionalVotingPower::new: a ratio in lowest terms, no greater than 1
FractionalVotingPowerNew(numer, denom) ==
    IF denom = 0 THEN Err("denominator can't be zero")
    ELSE IF numer > denom THEN Err("fraction greater than one")
    ELSE Ok([numer |-> numer \div Gcd(numer, denom),
             denom |-> denom \div Gcd(numer, denom)])

WeightedValidator(address, bonded_stake) ==
    [bonded_stake |-> bonded_stake, address |-> address]

\* sum_voting_powers
sum_voting_powers(validators) ==
    LET stake == [v \in validators |-> v.bonded_stake]
    IN  SumOver(stake, validators)

\* sum_voting_powers_for_block_heights
sum_voting_powers_for_block_heights(validators) ==
    [h \in DOMAIN validators |-> sum_voting_powers(validators[h])]

\* The closure mapped over `selected`: the entry of one (address, height)
VotingPowerEntry(all_consensus, total_voting_powers, addr, height) ==
    IF height \notin DOMAIN all_consensus
    THEN Err("No consensus validators found for height")
    ELSE LET consensus_validators == all_consensus[height]
             found == {v \in consensus_validators : v.address = addr}
         IN  IF found = {}
             THEN Err("No consensus validator found with address for height")
             ELSE IF height \notin DOMAIN total_voting_powers
             THEN Err("No total voting power provided for height")
             ELSE LET individual_voting_power ==
                          (CHOOSE v \in found : TRUE).bonded_stake
                      power == FractionalVotingPowerNew(
                                   individual_voting_power,
                                   total_voting_powers[height])
                  IN  IF power.ok THEN Ok(power.val) ELSE power

\* try_collect over the entries in the order the HashSet yields them: the
\* first error ends the collection
RECURSIVE TryCollect(_, _, _, _)
TryCollect(all_consensus, total_voting_powers, order, i) ==
    IF i > Len(order) THEN Ok(<<>>)
    ELSE LET entry == VotingPowerEntry(all_consensus, total_voting_powers,
                                       order[i][1], order[i][2])
         IN  IF ~entry.ok THEN entry
             ELSE LET rest == TryCollect(all_consensus, total_voting_powers,
                                         order, i + 1)
                  IN  IF ~rest.ok THEN rest
                      ELSE Ok(<<[key |-> order[i], value |-> entry.val]>>
                                  \o rest.val)

\* A collection that leaves out the validators it cannot find
GetVotingPowersSkippingUnknown(all_consensus, order) ==
    LET total_voting_powers == sum_voting_powers_for_block_heights(all_consensus)
        known == SelectSeq(order, LAMBDA p :
                     VotingPowerEntry(all_consensus, total_voting_powers,
                                      p[1], p[2]).ok)
        collected == TryCollect(all_consensus, total_voting_powers, known, 1)
    IN  Ok([p \in Range(known) |->
              collected.val[CHOOSE k \in 1..Len(collected.val) :
                                collected.val[k].key = p].value])

\* get_voting_powers_for_selected; `order` is `selected` in the order its
\* iterator yields it
get_voting_powers_for_selected(all_consensus, order) ==
    LET total_voting_powers == sum_voting_powers_for_block_heights(all_consensus)
        collected == TryCollect(all_consensus, total_voting_powers, order, 1)
    IN  IF ~collected.ok THEN collected
        ELSE Ok([p \in Range(order) |->
                    collected.val[CHOOSE k \in 1..Len(collected.val) :
                                      collected.val[k].key = p].value])

(* The inputs: validators, their stakes and the heights voted at *)

Addresses == 1..MaxAddrs
BlockHeights == {100, 101}
BondedStakes == {100, 200}

\* The consensus sets a height can have: every validator in it once
ConsensusSets ==
    UNION {{{WeightedValidator(a, stake[a]) : a \in A} :
               stake \in [A -> BondedStakes]} : A \in SUBSET Addresses}

AllConsensusMaps ==
    UNION {[H -> ConsensusSets] : H \in SUBSET BlockHeights}

VotingPowersInit ==
    /\ ShellIdle
    /\ GovIdle
    /\ op = "new"
    /\ LibIdle

GetVotingPowersForSelected ==
    /\ op = "new"
    /\ \E all_consensus \in AllConsensusMaps,
          selected \in SUBSET (Addresses \X BlockHeights) :
          \E order \in Orders(selected) :
             /\ input' = [all_consensus |-> all_consensus,
                          selected |-> selected]
             /\ output' = get_voting_powers_for_selected(all_consensus, order)
    /\ op' = "get_voting_powers_for_selected"
    /\ UNCHANGED <<shell_vars, gov_vars>>

\* sum_voting_powers on one consensus set
SumVotingPowers ==
    /\ op = "new"
    /\ \E validators \in ConsensusSets :
          /\ input' = [validators |-> validators]
          /\ output' = sum_voting_powers(validators)
    /\ op' = "sum_voting_powers"
    /\ UNCHANGED <<shell_vars, gov_vars>>

VotingPowersNext == GetVotingPowersForSelected \/ SumVotingPowers

VotingPowersSpec == VotingPowersInit /\ [][VotingPowersNext]_vars

----------------------------------------------------------------------------
(* C21: a well-formed Tx (code literal or hash, data present or absent,    *)
(* inner tx and inner tx code present or absent, signed or not) comes back *)
(* from the wire as it was: Tx::try_from(tx.to_bytes()) = Ok(tx).          *)
C21_TxRoundTrip ==
    op = "try_from" => output = Ok(input.tx)

C21_Witness ==
    /\ op = "try_from"
    /\ output.ok
    /\ input.tx.code.kind = "Hash"
    /\ input.origin.code = Literal(EmptyBytes)
    /\ IsSigned(input.tx)
    /\ input.tx.data[1].data = Some(EmptyBytes)
    /\ IsSome(input.tx.inner_tx)
    /\ IsSome(input.tx.inner_tx_code)

(* C22: the partial hash of a tx is that of the tx as it was built or last *)
(* signed, whatever was done since to its inner tx, its inner tx code or   *)
(* the form of its code (literal or hash); so the signature a tx got from  *)
(* sign passes verify_sig under the signer's key after these changes.      *)
C22_PartialHashIgnoresInnerAndCodeForm ==
    /\ partial_hash(input.tx) = partial_hash(input.origin)
    /\ (op = "verify_sig" /\ output.pk = input.tx.data[1].sig.signer) =>
          output.result.ok

C22_Witness ==
    /\ op = "verify_sig"
    /\ output.result.ok
    /\ input.origin.code.kind = "Literal"
    /\ input.tx.code.kind = "Hash"
    /\ IsSome(input.origin.inner_tx)
    /\ IsSome(input.tx.inner_tx)
    /\ input.tx.inner_tx # input.origin.inner_tx
    /\ input.tx.inner_tx_code # input.origin.inner_tx_code

----------------------------------------------------------------------------
(* Readers of a call of generate *)

\* The call made is generate on these transfers with these parameters
GenerateCalled(transfers, validator_gas, max_gas, max_cost) ==
    /\ op = "generate"
    /\ input = [contents |-> process_transfers(transfers),
                validator_gas |-> validator_gas,
                max_gas |-> max_gas, max_cost |-> max_cost]

\* The hashes of the first k transfers of the pool
PrefixHashes(k) == [i \in 1..k |-> input.contents[i].hash]

\* Accumulated gas and cost of the first k transfers of the pool
GasOfPrefix(k) == input.validator_gas + TRANSFER_FEE * k
CostOfPrefix(k) ==
    input.validator_gas
        + SumOver([i \in 1..k |-> input.contents[i].cost], 1..k)

WithinBudgets(k) ==
    /\ GasOfPrefix(k) <= input.max_gas
    /\ CostOfPrefix(k) <= input.max_cost

\* Number of profitable transfers of the pool (they come first)
ProfitableCount ==
    Cardinality({i \in 1..Len(input.contents) : input.contents[i].cost < 0})

(* C23, as claimed: with 17 transfers whose gas fee equals the transfer    *)
(* fee, validator gas 800_000, no gas limit and max_cost 0, all 17 are     *)
(* recommended.                                                            *)
C23_AllSeventeenAtExactFee ==
    GenerateCalled(Repeat(transfer(TRANSFER_FEE), 17), 800000, U64_MAX, 0) =>
        output = Some(Repeat(keccak256(transfer(TRANSFER_FEE)), 17))

(* C23, as the code has it: with 17 transfers of gas fee 100_000 each      *)
(* (cost 37_500 - 100_000 < 0), validator gas 800_000, no gas limit and    *)
(* max_cost 0, all 17 are recommended; with gas fees equal to the transfer *)
(* fee the cost is 0, no transfer is profitable and there is no            *)
(* recommendation.                                                         *)
C23_AllSeventeenProfitable ==
    /\ GenerateCalled(Repeat(transfer(100000), 17), 800000, U64_MAX, 0) =>
          output = Some(Repeat(keccak256(transfer(100000)), 17))
    /\ GenerateCalled(Repeat(transfer(TRANSFER_FEE), 17), 800000, U64_MAX, 0) =>
          output = None

C23_Witness ==
    /\ GenerateCalled(Repeat(transfer(100000), 17), 800000, U64_MAX, 0)
    /\ IsSome(output)
    /\ Len(output[1]) = 17

(* C24: in Greedy mode (max_cost <= 0) a recommendation is a prefix of the *)
(* pool made of profitable transfers only, and the recommendation for the  *)
(* pool with a transfer of gas fee 0 appended is the same.                 *)
C24_GreedyStopsAtNonProfitable ==
    (op = "generate" /\ input.max_cost <= 0) =>
        /\ IsSome(output) =>
              /\ Len(output[1]) <= ProfitableCount
              /\ output[1] = PrefixHashes(Len(output[1]))
        /\ generate(input.contents \o process_transfers(<<transfer(0)>>),
                    input.validator_gas, input.max_gas, input.max_cost)
              = output

C24_Witness ==
    /\ GenerateCalled(Repeat(transfer(100000), 17) \o <<transfer(0)>>,
                      800000, U64_MAX, 0)
    /\ output = Some(PrefixHashes(17))

(* C25, as claimed: a returned batch is the longest prefix of the sorted   *)
(* pool whose accumulated gas and cost are within max_gas and max_cost.    *)
C25_LongestPrefixWithinBudgets ==
    (op = "generate" /\ IsSome(output)) =>
        LET k == Len(output[1]) IN
        /\ output[1] = PrefixHashes(k)
        /\ WithinBudgets(k)
        /\ \A j \in (k + 1)..Len(input.contents) : ~WithinBudgets(j)

(* C25, as the code has it: a returned batch is a prefix of the sorted     *)
(* pool within both budgets, and the longest such prefix among those the   *)
(* mode allows: any prefix in Generous mode, the prefixes of profitable    *)
(* transfers in Greedy mode.                                               *)
C25_LongestAllowedPrefixWithinBudgets ==
    (op = "generate" /\ IsSome(output)) =>
        LET k == Len(output[1])
            allowed == IF input.max_cost <= 0 THEN ProfitableCount
                       ELSE Len(input.contents)
        IN  /\ k >= 1
            /\ k <= allowed
            /\ output[1] = PrefixHashes(k)
            /\ WithinBudgets(k)
            /\ \A j \in (k + 1)..allowed : ~WithinBudgets(j)

C25_Witness ==
    /\ GenerateCalled(Repeat(transfer(75000), 4) \o Repeat(transfer(17500), 2),
                      150000, 330000, 20000)
    /\ output = Some(PrefixHashes(4))
    /\ ~WithinBudgets(3)
    /\ ~WithinBudgets(5)

(* C26, as claimed: generate returns None exactly when no non-empty prefix *)
(* of the sorted pool is within both budgets.                              *)
C26_NoneIffNoPrefixWithinBudgets ==
    op = "generate" =>
        (output = None <=>
            ~\E k \in 1..Len(input.contents) : WithinBudgets(k))

\* What the code does: a pool without a profitable transfer gets no
\* recommendation in Generous mode although a prefix is within both budgets
C26_Witness ==
    /\ GenerateCalled(<<transfer(17500)>>, 50000, U64_MAX, 100000)
    /\ WithinBudgets(1)
    /\ output = None

(* Readers of a call of signature_checks *)

Signers == DOMAIN input.voting_powers \cap input.sigs

StakeOf(S) == SumOver(input.voting_powers, S)

\* Sets of signers holding more than 2/3 of the total voting power
SignerQuorums ==
    {S \in SUBSET Signers :
        3 * StakeOf(S) > 2 * StakeOf(DOMAIN input.voting_powers)}

(* C27: signature_checks is the number of signatures taken in order of     *)
(* decreasing voting power, validators without a signature skipped, until  *)
(* the signers counted hold more than 2/3 of the total voting power, that  *)
(* is the size of the smallest quorum of signers; it is the number of all  *)
(* signers when they hold no quorum.  The validator gas is SIGNATURE_FEE   *)
(* times that count plus VALSET_FEE times the number of validators.        *)
C27_SignatureChecksIsQuorumSize ==
    op = "signature_checks" =>
        /\ IF SignerQuorums = {}
           THEN output.checks = Cardinality(Signers)
           ELSE /\ \E S \in SignerQuorums : Cardinality(S) = output.checks
                /\ \A S \in SignerQuorums : Cardinality(S) >= output.checks
        /\ output.validator_gas
              = SIGNATURE_FEE * output.checks
                    + VALSET_FEE * Cardinality(DOMAIN input.voting_powers)

C27_Witness ==
    /\ op = "signature_checks"
    /\ input.voting_powers = <<5, 2, 5, 1>>
    /\ input.sigs = {1, 3, 4}
    /\ output.checks = 2
    /\ output.validator_gas = 57000

----------------------------------------------------------------------------
(* C28, as claimed: a relay transaction is sent to the Bridge contract     *)
(* only for a proof whose batch nonce is greater than the contract's       *)
(* nonce; for any other nonce relation the call halts and sends nothing.   *)
C28_RelayOnlyWhenNonceGreater ==
    [][op' = "relay_bridge_pool_proof" =>
          /\ input'.sent # input.sent =>
                input.batch_nonce > input.contract_nonce
          /\ ~(input.batch_nonce > input.contract_nonce) =>
                /\ output'.halt
                /\ input'.sent = input.sent
      ]_vars

(* C28, as the code has it: a relay transaction is sent to the Bridge      *)
(* contract only for a proof whose batch nonce equals the contract's       *)
(* nonce, and it is that proof; when the batch nonce is smaller or greater *)
(* the call halts and sends nothing.                                       *)
C28_RelayOnlyWhenNonceEqual ==
    [][op' = "relay_bridge_pool_proof" =>
          /\ input'.sent # input.sent =>
                /\ input.batch_nonce = input.contract_nonce
                /\ ~output'.halt
                /\ input'.sent = Append(input.sent, output'.sent[1])
                /\ output'.sent[1].batch_nonce = input.contract_nonce
          /\ input.batch_nonce # input.contract_nonce =>
                /\ output'.halt
                /\ output'.sent = None
                /\ input' = input
      ]_vars

C28_Witness ==
    /\ op = "relay_bridge_pool_proof"
    /\ ~output.halt
    /\ Len(input.sent) = 2
    /\ input.sent[1].batch_nonce = 1
    /\ input.sent[2].batch_nonce = 2
    /\ output.sent = Some(input.sent[2])
    /\ input.contract_nonce = 3

----------------------------------------------------------------------------
(* Readers of a call of get_voting_powers_for_selected *)

\* The consensus validators with this address at this height
ConsensusEntries(addr, height) ==
    IF height \in DOMAIN input.all_consensus
    THEN {v \in input.all_consensus[height] : v.address = addr}
    ELSE {}

TotalStakeAt(height) ==
    LET vs == input.all_consensus[height]
    IN  SumOver([v \in vs |-> v.bonded_stake], vs)

(* C29: when every selected (validator, height) has the validator in the   *)
(* consensus set given for the height, the result is a map with exactly    *)
(* the selected pairs as keys, each with the validator's bonded stake      *)
(* divided by the sum of the bonded stakes of the height's consensus       *)
(* validators, in lowest terms; otherwise (a validator missing from its    *)
(* height's set, or no set given for a height) the result is an error and  *)
(* no map.                                                                 *)
C29_VotingPowersForSelected ==
    op = "get_voting_powers_for_selected" =>
        IF \A p \in input.selected : ConsensusEntries(p[1], p[2]) # {}
        THEN /\ output.ok
             /\ DOMAIN output.val = input.selected
             /\ \A p \in input.selected :
                   \E v \in ConsensusEntries(p[1], p[2]) :
                      /\ output.val[p].numer * TotalStakeAt(p[2])
                            = v.bonded_stake * output.val[p].denom
                      /\ Gcd(output.val[p].numer, output.val[p].denom) = 1
        ELSE /\ ~output.ok
             /\ DOMAIN output = {"ok", "err"}

C29_Witness ==
    /\ op = "get_voting_powers_for_selected"
    /\ input.selected = {<<1, 100>>, <<2, 100>>, <<1, 101>>}
    /\ output.ok
    /\ output.val[<<1, 100>>] = [numer |-> 1, denom |-> 3]
    /\ output.val[<<2, 100>>] = [numer |-> 2, denom |-> 3]
    /\ output.val[<<1, 101>>] = [numer |-> 1, denom |-> 1]

----------------------------------------------------------------------------
(* C30, as claimed: a call of execute_governance_proposals on given        *)
(* proposal data and storage has one outcome, whatever the order in which  *)
(* the set of proposal ids is iterated: the same sequence of events, the   *)
(* same result with the same passed and rejected lists, and the same       *)
(* storage and write log afterwards.                                       *)
C30_DeterministicExecution ==
    [][op' = "execute_governance_proposals" =>
          \A order \in Orders(proposal_data) :
              LET out == execute_governance_proposals(GovShell,
                                                      EmptyResponse.events,
                                                      order)
              IN  /\ out.events = response'.events
                  /\ out.result = call'.result
                  /\ out.shell.storage = storage'
                  /\ out.shell.write_log = write_log'
      ]_vars

\* What the code does: with two proposals in the proposal data, the events
\* and the passed list come in the order the HashSet yields the ids, here
\* proposal 2 before proposal 1
C30_Witness ==
    /\ Tallied
    /\ call.taken = {1, 2}
    /\ call.result.ok
    /\ call.result.val.passed = <<2, 1>>
    /\ Len(response.events) = 2
    /\ response.events[1].attributes.proposal_id = ToString(2)
    /\ response.events[2].attributes.proposal_id = ToString(1)

----------------------------------------------------------------------------
(* C31: in the ProposalsResult of a call that returns Ok, the passed and   *)
(* the rejected lists are disjoint and without repetition and hold only    *)
(* ids taken from the proposal data; an id is in the passed list iff its   *)
(* funds were transferred to its author, an id of the rejected list has    *)
(* its funds in the slash fund, and an id whose tally Failed is in neither *)
(* list, its funds going to the slash fund.                                *)
C31_PassedAndRejectedLists ==
    (Tallied /\ call.result.ok) =>
        LET passed_ids == call.result.val.passed
            rejected_ids == call.result.val.rejected
            SentTo(id, dest) ==
                /\ Len(TransfersOf(id)) = 1
                /\ TransfersOf(id)[1].dest = dest
                /\ TransfersOf(id)[1].amount = storage[get_funds_key(id)][1]
        IN  /\ Range(passed_ids) \cap Range(rejected_ids) = {}
            /\ NoDuplicates(passed_ids)
            /\ NoDuplicates(rejected_ids)
            /\ Range(passed_ids) \cup Range(rejected_ids) \subseteq call.taken
            /\ \A id \in call.taken :
                  /\ id \in Range(passed_ids) <=>
                        /\ HasKey(get_author_key(id))
                        /\ SentTo(id, storage[get_author_key(id)][1])
                  /\ id \in Range(rejected_ids) => SentTo(id, slash_fund_address)
                  /\ (/\ EventsOf(id) # <<>>
                      /\ EventsOf(id)[1].attributes.tally_result = "Failed") =>
                        /\ id \notin Range(passed_ids) \cup Range(rejected_ids)
                        /\ SentTo(id, slash_fund_address)

\* A call that passed one proposal and could not tally the other
C31_Witness ==
    /\ Tallied
    /\ call.result.ok
    /\ Len(call.result.val.passed) = 1
    /\ call.result.val.rejected = <<>>
    /\ \E id \in call.taken :
          /\ id \notin Range(call.result.val.passed)
          /\ EventsOf(id)[1].attributes.tally_result = "Failed"
          /\ TransfersOf(id)[1].dest = slash_fund_address
    /\ \E id \in Range(call.result.val.passed) :
          TransfersOf(id)[1].dest = AuthorAddress

----------------------------------------------------------------------------
(* C32: on a node that is not in validator mode, prepare_proposal answers  *)
(* every request with an empty tx_records list, whatever the mempool, the  *)
(* last commit and the queue of wrappers hold, and resets the gas meter;   *)
(* it changes nothing else of the shell.                                   *)
C32_EmptyProposalOffValidatorMode ==
    [][(op' = "prepare_proposal" /\ mode # "Validator") =>
          /\ resp'.status = "ok"
          /\ resp'.tx_records = <<>>
          /\ gas_meter' = 0
          /\ UNCHANGED <<mode, last_height, tx_queue, voting_powers>>
      ]_vars

\* A full node that has wrappers to decrypt and is handed a mempool with a
\* valid wrapper and a last commit answers with no record
C32_Witness ==
    /\ Responded
    /\ mode = "Full"
    /\ last_height > 0
    /\ tx_queue # <<>>
    /\ \E i \in 1..Len(req.txs) : IsAcceptedWrapper(req.txs[i])
    /\ IsSome(req.local_last_commit)
    /\ Records = <<>>
    /\ gas_meter = 0

----------------------------------------------------------------------------
(* C33: for a mempool of n txs the mempool section of a validator's        *)
(* proposal has exactly min(n, 1 + n div 2) records, the i-th carrying the *)
(* bytes of the i-th tx of the mempool unchanged, kept or removed; the txs *)
(* past that position have no record, and no other record of the proposal  *)
(* keeps or removes a tx.                                                  *)
C33_MempoolSectionIsLeadingTxs ==
    Proposed =>
        LET n == Len(req.txs)
            k == Min(n, 1 + n \div 2)
        IN  /\ Len(MempoolSection) = k
            /\ TxsOf(MempoolSection) = SubSeq(req.txs, 1, k)
            /\ \A i \in 1..Len(Records) :
                  IsMempoolRecord(Records[i]) =>
                      \E j \in 1..k : /\ Records[i].tx = req.txs[j]
                                      /\ i = Len(ProtocolSection) + j

\* A mempool of four txs of which the last, unlike the first three, is a
\* raw tx: three records, and none for the raw tx
C33_Witness ==
    /\ Proposed
    /\ Len(req.txs) = 4
    /\ req.txs[4] = MempoolRaw
    /\ \A i \in 1..3 : req.txs[i] = MempoolWrapperA
    /\ Len(MempoolSection) = 3
    /\ \A i \in 1..Len(Records) : Records[i].tx # MempoolRaw

----------------------------------------------------------------------------
(* C34: contract() turns a TxCode into Hash(code_hash) and a second        *)
(* contract() changes nothing; expand(code) returns Ok and leaves          *)
(* Literal(code) iff hash_tx(code) is the code hash, and otherwise returns *)
(* InvalidCodeError and leaves the TxCode as it was; after any sequence of *)
(* contract and expand calls code_hash() is what it was at first.          *)
C34_ContractExpandPreserveHash ==
    /\ code_hash(input.code) = code_hash(input.origin)
    /\ op = "contract" =>
          /\ input.code = HashCode(code_hash(input.before))
          /\ contract(input.code) = input.code
    /\ op = "expand" =>
          /\ output.ok <=> hash_tx(input.arg[1]) = code_hash(input.before)
          /\ output.ok => input.code = Literal(input.arg[1])
          /\ ~output.ok => /\ output.err = "InvalidCodeError"
                           /\ input.code = input.before

\* A literal that was reduced and, at its third call, is expanded again with
\* the code it came from
C34_Witness ==
    /\ op = "expand"
    /\ input.calls = 3
    /\ input.origin = Literal(RawBytes(100))
    /\ input.before = HashCode(hash_tx(RawBytes(100)))
    /\ output.ok
    /\ input.code = input.origin

----------------------------------------------------------------------------
(* Reading the mock Web3 client *)

\* The events waiting in the client once the commands in its channel are
\* applied, and the state the client is then in
PendingIn(client) == check_cmd_channel(client).events
ResponsiveIn(client) == check_cmd_channel(client).active

(* C35: an event injected with NewEvent is returned by at most one         *)
(* check_for_events call, and its `seen` signal fires exactly when it is   *)
(* returned.  A call returns an event only if the client is responsive,    *)
(* the first event type asked for is the event's and block_to_check is at  *)
(* least its height; it then returns every such pending event.  A call on  *)
(* an unresponsive client returns an error and every pending event stays   *)
(* pending.                                                                *)
C35_EventsDeliveredOnce ==
    [][op' = "check_for_events" =>
          LET pending == PendingIn(input.client)
              Due(e) == /\ e.event_type = Head(output'.event_types)
                        /\ output'.block_to_check >= e.height
          IN  /\ \A d \in 1..MaxCmds :
                    /\ input'.returned[d] <= 1
                    /\ input'.seen[d] = input'.returned[d]
              /\ output'.result.ok <=> ResponsiveIn(input.client)
              /\ output'.result.ok =>
                    /\ output'.result.val
                          = [i \in 1..Len(SelectSeq(pending, Due)) |->
                                SelectSeq(pending, Due)[i].data]
                    /\ input'.client.events
                          = SelectSeq(pending, LAMBDA e : ~Due(e))
              /\ ~output'.result.ok =>
                    /\ input'.client.events = pending
                    /\ input'.returned = input.returned
                    /\ input'.seen = input.seen
      ]_vars

\* An event injected after the client was made unresponsive is returned
\* once the client is back to normal
C35_Witness ==
    /\ op = "check_for_events"
    /\ Len(input.sent) = 3
    /\ input.sent[1].cmd = "Unresponsive"
    /\ input.sent[2].cmd = "NewEvent"
    /\ input.sent[3].cmd = "Normal"
    /\ output.result.ok
    /\ output.result.val = <<2>>
    /\ input.returned[2] = 1
    /\ input.seen[2] = 1
    /\ input.client.events = <<>>

----------------------------------------------------------------------------
(* Reading a call of the client *)

\* The tx bytes sent to the mempool and those dry-run by the call
BroadcastBytes ==
    {output.rpcs[i].arg : i \in {j \in 1..Len(output.rpcs) :
                                    output.rpcs[j].rpc = "broadcast_tx_sync"}}
DryRunBytes ==
    {output.rpcs[i].arg : i \in {j \in 1..Len(output.rpcs) :
                                    output.rpcs[j].rpc = "dry_run_tx"}}

\* The call was handed TxBroadcastData of this kind
Given(kind) ==
    /\ op \in {"broadcast_tx", "submit_tx", "expect_dry_broadcast"}
    /\ input.to_broadcast.kind = kind

(* C36: the client never sends a dry-run tx to the mempool and never       *)
(* dry-runs a wrapper.  process_tx with args.dry_run makes the dry run and *)
(* no other request and returns an empty list of addresses (when the tx    *)
(* could be signed); broadcast_tx and submit_tx given DryRun data return   *)
(* ExpectWrappedRun without a request; expect_dry_broadcast given Wrapper  *)
(* data returns ExpectDryRun without a request.                            *)
C36_DryRunNeverBroadcast ==
    /\ Given("DryRun") => BroadcastBytes = {}
    /\ Given("Wrapper") => DryRunBytes = {}
    /\ op = "process_tx" =>
          /\ input.args.dry_run =>
                /\ BroadcastBytes = {}
                /\ IsSome(input.wallet.keypair) =>
                      /\ output.rpcs = <<RpcDryRunTx(to_bytes(input.tx))>>
                      /\ output.result = Ok(<<>>)
          /\ ~input.args.dry_run =>
                /\ DryRunBytes = {}
                /\ to_bytes(input.tx) \notin BroadcastBytes
    /\ (op \in {"broadcast_tx", "submit_tx"} /\ Given("DryRun")) =>
          /\ output.rpcs = <<>>
          /\ output.result = Err([error |-> "ExpectWrappedRun",
                                  of |-> input.to_broadcast.tx])
    /\ (op = "expect_dry_broadcast" /\ Given("Wrapper")) =>
          /\ output.rpcs = <<>>
          /\ output.result = Err([error |-> "ExpectDryRun",
                                  of |-> input.to_broadcast.tx])

\* A dry run made by process_tx although the node would have taken the tx
C36_Witness ==
    /\ op = "process_tx"
    /\ input.args.dry_run
    /\ ~input.args.broadcast_only
    /\ input.node.broadcast = Ok([code |-> 0])
    /\ output.result = Ok(<<>>)
    /\ Len(output.rpcs) = 1
    /\ DryRunBytes = {to_bytes(InnerTx(1))}

(* C37: submit_tx given a wrapper first sends it to the mempool; if the    *)
(* request fails or its code is not 0 it returns a TxBroadcast error and   *)
(* awaits nothing; otherwise it queries the Accepted event of the wrapper  *)
(* hash, and only if that event has code 0 the Applied event of the        *)
(* decrypted hash, whose response it returns; otherwise it returns the     *)
(* Accepted response and never queries Applied.                            *)
C37_BroadcastAcceptedApplied ==
    (op = "submit_tx" /\ Given("Wrapper")) =>
        LET node == input.node
            data == input.to_broadcast
            broadcast == RpcBroadcastTxSync(to_bytes(data.tx))
            accepted == RpcQueryTxStatus("Accepted", data.wrapper_hash)
            applied == RpcQueryTxStatus("Applied", data.decrypted_hash)
            in_mempool == node.broadcast.ok /\ node.broadcast.val.code = 0
        IN  /\ ~in_mempool =>
                  /\ output.rpcs = <<broadcast>>
                  /\ ~output.result.ok
                  /\ output.result.err.error = "TxBroadcast"
            /\ (in_mempool /\ node.accepted.code # 0) =>
                  /\ output.rpcs = <<broadcast, accepted>>
                  /\ output.result = Ok(node.accepted)
            /\ (in_mempool /\ node.accepted.code = 0) =>
                  /\ output.rpcs = <<broadcast, accepted, applied>>
                  /\ output.result = Ok(node.applied)

\* A wrapper that entered the mempool and was not accepted, although its
\* decrypted tx would have been applied
C37_Witness ==
    /\ op = "submit_tx"
    /\ Given("Wrapper")
    /\ input.node.applied.code = 0
    /\ output.result.ok
    /\ output.result.val.info = "Accepted"
    /\ output.result.val.code = 1
    /\ Len(output.rpcs) = 2

----------------------------------------------------------------------------
(* Reading a call of a submit function *)

SubmitFunctions ==
    {"submit_validator_commission_change", "submit_withdraw", "submit_unbond",
     "submit_bond", "submit_ibc_transfer", "submit_transfer",
     "submit_update_vp"}

SubmitCalled == op \in SubmitFunctions

\* The error of a check if it fails on what the chain holds, in a list
FailsIf(cond, e) == IF cond THEN <<e>> ELSE <<>>

UnknownValidator ==
    FailsIf(input.args.validator \notin input.chain.validators,
            "InvalidValidatorAddress")
LowBalance ==
    IF IsSome(input.chain.balance)
    THEN FailsIf(input.chain.balance[1] < input.args.amount, "BalanceTooLow")
    ELSE <<"NoBalanceForToken">>
Unknown(addr, e) == FailsIf(addr \notin input.chain.known, e)

\* The checks of the call that fail, in the order the call makes them
FailedChecks ==
    CASE op = "submit_bond" ->
            UnknownValidator
            \o (IF IsSome(input.args.source)
                THEN Unknown(input.args.source[1], "SourceDoesNotExist")
                ELSE <<>>)
            \o LowBalance
      [] op = "submit_unbond" ->
            UnknownValidator
            \o (IF IsSome(input.chain.bonds)
                THEN FailsIf(SumSeq(input.chain.bonds[1]) < input.args.amount,
                             "LowerBondThanUnbond")
                ELSE <<"NoBondFound">>)
      [] op = "submit_withdraw" ->
            UnknownValidator
            \o (IF IsSome(input.chain.unbonds)
                THEN FailsIf(SumSeq(input.chain.unbonds[1]) = 0, "NoUnbondReady")
                ELSE <<"NoUnbondFound">>)
      [] op = "submit_validator_commission_change" ->
            IF UnknownValidator # <<>> THEN UnknownValidator
            ELSE FailsIf(input.args.rate < 0 \/ input.args.rate > 100,
                         "InvalidCommisionRate")
                 \o (IF /\ IsSome(input.chain.commission_rates)
                        /\ IsSome(input.chain.max_change)
                     THEN FailsIf(Abs(input.args.rate
                                        - input.chain.commission_rates[1])
                                      > input.chain.max_change[1],
                                  "TooLargeOfChange")
                     ELSE <<"Retrival">>)
      [] op = "submit_transfer" ->
            Unknown(input.args.source, "SourceDoesNotExist")
            \o Unknown(input.args.target, "TargetLocationDoesNotExist")
            \o Unknown(input.args.token, "TokenDoesNotExist")
            \o LowBalance
      [] op = "submit_ibc_transfer" ->
            Unknown(input.args.source, "SourceDoesNotExist")
            \o Unknown(input.args.token, "TokenDoesNotExist")
            \o LowBalance
      [] op = "submit_update_vp" ->
            (CASE input.args.addr.kind = "Established" ->
                     Unknown(input.args.addr.addr, "LocationDoesNotExist")
               [] input.args.addr.kind = "Implicit" -> <<"ImplicitUpdate">>
               [] OTHER -> <<"ImplicitInternalError">>)
            \o FailsIf(~input.args.vp_code_valid, "WasmValidationFailure")

\* The tx was built and handed on: it went to the mempool, or was dry-run
TxSubmitted ==
    /\ IsSome(output.tx)
    /\ \E i \in 1..Len(output.rpcs) :
          /\ output.rpcs[i].rpc
                = IF input.args.tx.dry_run THEN "dry_run_tx"
                  ELSE "broadcast_tx_sync"
          /\ input.args.tx.dry_run => output.rpcs[i].arg = to_bytes(output.tx[1])

\* Nothing was built, sent or dry-run
NothingSubmitted ==
    /\ output.tx = None
    /\ \A i \in 1..Len(output.rpcs) :
          output.rpcs[i].rpc \notin {"broadcast_tx_sync", "dry_run_tx"}

\* The shielded part of a transfer, if any, could be built
TxCanBeBuilt == input.chain.shielded = "Ok"

----------------------------------------------------------------------------
(* Reading the IBC transfer message a call built *)

\* The MsgTransfer in the data of the tx handed to process_tx
MsgTransferOf(tx) == tx.data[1].x

(* C39: the message built by submit_ibc_transfer never has both a zero     *)
(* timeout height and no timeout timestamp.  The height is (0, h) for a    *)
(* given h and zero otherwise; the timestamp is now + offset when an       *)
(* offset is given, now + 3600 s when none is given and the height is      *)
(* zero, and unset when none is given and the height is not zero.          *)
C39_IbcTimeoutNeverBothUnset ==
    (op = "submit_ibc_transfer" /\ IsSome(output.tx)) =>
        LET msg == MsgTransferOf(output.tx[1])
            height == input.args.timeout_height
            offset == input.args.timeout_sec_offset
        IN  /\ ~(is_zero(msg.timeout_height)
                    /\ msg.timeout_timestamp = IbcTimestampNone)
            /\ msg.timeout_height
                  = IbcHeightNew(0, IF IsSome(height) THEN height[1] ELSE 0)
            /\ IsSome(offset) =>
                  msg.timeout_timestamp = IbcTimestampAt(input.now + offset[1])
            /\ (~IsSome(offset) /\ is_zero(msg.timeout_height)) =>
                  msg.timeout_timestamp = IbcTimestampAt(input.now + 3600)
            /\ (~IsSome(offset) /\ ~is_zero(msg.timeout_height)) =>
                  msg.timeout_timestamp = IbcTimestampNone

\* A transfer asked for with a timeout height of zero and no offset
C39_Witness ==
    /\ op = "submit_ibc_transfer"
    /\ input.args.timeout_height = Some(0)
    /\ input.args.timeout_sec_offset = None
    /\ output.result.ok
    /\ IsSome(output.tx)
    /\ is_zero(MsgTransferOf(output.tx[1]).timeout_height)
    /\ MsgTransferOf(output.tx[1]).timeout_timestamp
          = IbcTimestampAt(input.now + 3600)
====
